---- MODULE Spec2Model ----
(***************************************************************************)
(* Sensor simulation, alarm evaluation and health scoring of the bucket    *)
(* elevator / conveyor demo: EnhancedSensorSystem                          *)
(* (enhanced_sensor_system.py), the basic SensorSystem of main9.py and     *)
(* convy.py, and the transmitter interface of python_connector.py.         *)
(*                                                                         *)
(* Numbers.  Sensor values are Python floats.  The model draws them from   *)
(* small sets of integers and keeps every derived quantity (health score,  *)
(* trend slope, r_squared, failure indicators, operating hours) as an      *)
(* exact fraction [n |-> numerator, d |-> denominator], d > 0, in lowest   *)
(* terms.  Time is the wall clock in whole seconds.                        *)
(***************************************************************************)
EXTENDS Integers, Sequences, FiniteSets, TLC

(***************************************************************************)
(* Arithmetic helpers                                                      *)
(***************************************************************************)
Max(a, b) == IF a >= b THEN a ELSE b

Min(a, b) == IF a <= b THEN a ELSE b

Abs(a) == IF a < 0 THEN -a ELSE a

RECURSIVE GCD(_, _)
GCD(a, b) == IF b = 0 THEN a ELSE GCD(b, a % b)

LCM(a, b) == (a \div GCD(a, b)) * b

\* the fraction n/d in lowest terms with a positive denominator
Rat(n, d) ==
    LET g == GCD(Abs(n), Abs(d))
        s == IF d < 0 THEN -1 ELSE 1
    IN  [n |-> (s * n) \div g, d |-> (s * d) \div g]

RInt(k) == [n |-> k, d |-> 1]

RAdd(a, b) ==
    LET l == LCM(a.d, b.d)
    IN  Rat(a.n * (l \div a.d) + b.n * (l \div b.d), l)

RNeg(a) == [n |-> -a.n, d |-> a.d]

RSub(a, b) == RAdd(a, RNeg(b))

\* product, cancelling across the factors first to keep the numbers small
RMul(a, b) ==
    LET g1 == GCD(Abs(a.n), b.d)
        g2 == GCD(Abs(b.n), a.d)
    IN  Rat((a.n \div g1) * (b.n \div g2), (a.d \div g2) * (b.d \div g1))

RLess(a, b) == a.n * b.d < b.n * a.d

RLeq(a, b) == a.n * b.d <= b.n * a.d

RDiv(a, b) == RMul(a, Rat(b.d, b.n))

RMin(a, b) == IF RLeq(a, b) THEN a ELSE b

RMax(a, b) == IF RLeq(b, a) THEN a ELSE b

\* Python's int() of a float: truncation toward zero
RTrunc(a) == IF a.n >= 0 THEN a.n \div a.d ELSE -((-a.n) \div a.d)

\* Python's float % m for m > 0 (result in [0, m))
RMod(a, m) == RSub(a, RInt(m * (a.n \div (a.d * m))))

\* an optional argument or dictionary entry: <<>> is None / absent, <<v>> is v
None == <<>>

Some(v) == <<v>>

Last(s, k) == SubSeq(s, Max(1, Len(s) - k + 1), Len(s))

(***************************************************************************)
(* EnhancedSensorSystem: configuration                                     *)
(***************************************************************************)
Channels == {"speed_rpm", "load_kg", "temperature_c", "vibration_ms2", "current_a"}

\* iteration order of the self.sensors dictionary
ChannelOrder == <<"speed_rpm", "load_kg", "temperature_c", "vibration_ms2", "current_a">>

Sensor(v, lo, hi, al, cr, olo, ohi) ==
    [value |-> v, min |-> lo, max |-> hi, alarm_threshold |-> al,
     critical_threshold |-> cr, optimal_range |-> <<olo, ohi>>,
     calibration_factor |-> 1]

InitSensors ==
    [c \in Channels |->
        CASE c = "speed_rpm"     -> Sensor(0, 0, 100, 90, 95, 40, 60)
          [] c = "load_kg"       -> Sensor(0, 0, 1000, 900, 950, 400, 700)
          [] c = "temperature_c" -> Sensor(25, 20, 80, 70, 75, 25, 45)
          [] c = "vibration_ms2" -> Sensor(0, 0, 20, 15, 18, 2, 8)
          [] c = "current_a"     -> Sensor(0, 0, 50, 45, 48, 15, 35)]

alarm_cooldown == 30

trend_cooldown == 300

transmission_interval == 3

\* capacity of each history buffer (1000 in the source) and of the alarm log
\* (100 in the source), scaled down so that overflow is reached
max_history_points == 12

max_alarms == 12

\* the wall clock at construction: time.time() counts from 1970, so it is far
\* beyond transmission_interval
StartTime == 1000

\* update_sensors calls per run of Spec
MaxTicks == 2

(***************************************************************************)
(* EnhancedSensorSystem.update_sensors, step by step.  Every operator      *)
(* takes the sensor table (or the state it reads) and returns what the     *)
(* method stores.                                                          *)
(***************************************************************************)

\* _update_speed_sensor .. _update_current_sensor.  Each formula adds terms
\* of time.time(), sin/cos of the operating time and random noise to the
\* inputs; raw[c] is the value of that formula for channel c.  Only the
\* speed formula is guarded by max(0, .).
UpdateRawValues(S, raw) ==
    [c \in Channels |->
        [S[c] EXCEPT !.value = IF c = "speed_rpm" THEN Max(0, raw[c]) ELSE raw[c]]]

\* _apply_sensor_calibration
ApplySensorCalibration(S) ==
    [c \in Channels |->
        LET v == S[c].value * S[c].calibration_factor
        IN  [S[c] EXCEPT !.value = IF c = "vibration_ms2" THEN Max(0, v) ELSE v]]

\* _add_realistic_noise: noise[c] is the draw of random.gauss(0, level[c])
AddRealisticNoise(S, noise) ==
    [c \in Channels |-> [S[c] EXCEPT !.value = S[c].value + noise[c]]]

\* max(min, min(max, value)) of one channel
BoundValue(s) == Max(s.min, Min(s.max, s.value))

\* _enforce_sensor_bounds
EnforceSensorBounds(S) ==
    [c \in Channels |-> [S[c] EXCEPT !.value = BoundValue(S[c])]]

\* a buffer that refuses the new entry when it is full
Mutant_AppendBounded(h, e, cap) ==
    LET h2 == Append(h, e)
    IN  IF Len(h2) > cap THEN SubSeq(h2, 1, cap) ELSE h2

\* append to one history buffer, dropping the oldest entry past the capacity
AppendBounded(h, e, cap) ==
    LET h2 == Append(h, e)
    IN  IF Len(h2) > cap THEN Tail(h2) ELSE h2

\* _store_historical_data
StoreHistoricalData(H, S, t) ==
    [c \in Channels |->
        AppendBounded(H[c], [timestamp |-> t, value |-> S[c].value], max_history_points)]

\* the deduction for one channel without its cap of 10 points
Mutant_SensorPenalty(s) ==
    LET lo == s.optimal_range[1]
        hi == s.optimal_range[2]
        v  == s.value
        deviation == IF v < lo THEN Rat(lo - v, lo) ELSE Rat(v - hi, hi)
    IN  IF v < lo \/ v > hi
        THEN RMul(deviation, RInt(20))
        ELSE RInt(0)

\* the points _update_health_score deducts for one channel
SensorPenalty(s) ==
    LET lo == s.optimal_range[1]
        hi == s.optimal_range[2]
        v  == s.value
        deviation == IF v < lo THEN Rat(lo - v, lo) ELSE Rat(v - hi, hi)
    IN  IF v < lo \/ v > hi
        THEN RMin(RInt(10), RMul(deviation, RInt(20)))
        ELSE RInt(0)

RECURSIVE SumPenalties(_, _)
SumPenalties(S, i) ==
    IF i = 0 THEN RInt(0)
    ELSE RAdd(SumPenalties(S, i - 1), SensorPenalty(S[ChannelOrder[i]]))

\* an age factor of at least 1.5 points
Mutant_AgeFactor(hours) == RMul(RMax(RDiv(hours, RInt(8760)), Rat(1, 10)), RInt(15))

\* age_factor of _update_health_score
AgeFactor(hours) == RMul(RMin(RDiv(hours, RInt(8760)), Rat(1, 10)), RInt(15))

\* number of HIGH / CRITICAL records among the last k of the log
RECURSIVE CountSevere(_)
CountSevere(log) ==
    IF log = <<>> THEN 0
    ELSE (IF Head(log).severity \in {"HIGH", "CRITICAL"} THEN 1 ELSE 0)
         + CountSevere(Tail(log))

AlarmPenalty(log) == Min(20, CountSevere(Last(log, 20)) * 2)

\* _update_health_score
UpdateHealthScore(S, hours, log) ==
    LET health == RSub(RSub(RSub(RInt(100), SumPenalties(S, Len(ChannelOrder))),
                            AgeFactor(hours)),
                       RInt(AlarmPenalty(log)))
    IN  RMax(RInt(0), RMin(RInt(100), health))

\* remaining_useful_life computed as (1 + worst) * 100
Mutant_RemainingUsefulLife(F) ==
    LET worst == RMax(RMax(F.bearing_wear, F.belt_degradation),
                      RMax(F.motor_efficiency, F.lubrication_quality))
    IN  RMax(RInt(0), RMul(RAdd(RInt(1), worst), RInt(100)))

\* remaining_useful_life from the failure indicators
RemainingUsefulLife(F) ==
    LET worst == RMax(RMax(F.bearing_wear, F.belt_degradation),
                      RMax(F.motor_efficiency, F.lubrication_quality))
    IN  RMax(RInt(0), RMul(RSub(RInt(1), worst), RInt(100)))

\* _update_failure_predictions that also ages the lubricant with the hours run
Mutant_UpdateFailureIndicators(F, S, T, hours) ==
    LET vib  == S["vibration_ms2"].value
        spd  == S["speed_rpm"].value
        cur  == S["current_a"].value
        bearing == RMin(RInt(1),
                        RAdd(RMax(RInt(0), Rat(vib - 5, 15)),
                             RMul(T["vibration_ms2"].slope, Rat(1, 10))))
        belt == RMin(RInt(1), RAdd(Rat(Abs(spd - 50), 50), RDiv(hours, RInt(5000))))
        motor == RMax(RInt(0),
                      RSub(RSub(RInt(1), Rat(Abs(cur - 25), 25)),
                           RMul(T["current_a"].slope, Rat(1, 20))))
    IN  [F EXCEPT !.bearing_wear = bearing,
                  !.belt_degradation = belt,
                  !.motor_efficiency = motor,
                  !.lubrication_quality =
                      RMax(RInt(0), RSub(RInt(1), RDiv(hours, RInt(5000))))]

\* _update_failure_predictions: the new failure_indicators
UpdateFailureIndicators(F, S, T, hours) ==
    LET vib  == S["vibration_ms2"].value
        spd  == S["speed_rpm"].value
        cur  == S["current_a"].value
        bearing == RMin(RInt(1),
                        RAdd(RMax(RInt(0), Rat(vib - 5, 15)),
                             RMul(T["vibration_ms2"].slope, Rat(1, 10))))
        belt == RMin(RInt(1), RAdd(Rat(Abs(spd - 50), 50), RDiv(hours, RInt(5000))))
        motor == RMax(RInt(0),
                      RSub(RSub(RInt(1), Rat(Abs(cur - 25), 25)),
                           RMul(T["current_a"].slope, Rat(1, 20))))
    IN  [F EXCEPT !.bearing_wear = bearing,
                  !.belt_degradation = belt,
                  !.motor_efficiency = motor]

RECURSIVE SeqSum(_)
SeqSum(s) == IF s = <<>> THEN 0 ELSE Head(s) + SeqSum(Tail(s))

\* the regression of _perform_trend_analysis over one channel's history h
\* (x is the index 0 .. n-1 of a point among the last 20).  old is the entry
\* trend_data already holds.  The residual sum ss_res is evaluated in closed
\* form, ss_tot - (n*sum_xy - sum_x*sum_y)^2 / (n * denominator), which is
\* what the sum of squared residuals of the fitted line equals.
TrendOf(old, h) ==
    LET recent == Last(h, 20)
        n      == Len(recent)
        ys     == [i \in 1..n |-> recent[i].value]
        sum_x  == SeqSum([i \in 1..n |-> i - 1])
        sum_y  == SeqSum(ys)
        sum_xy == SeqSum([i \in 1..n |-> (i - 1) * ys[i]])
        sum_xx == SeqSum([i \in 1..n |-> (i - 1) * (i - 1)])
        sum_yy == SeqSum([i \in 1..n |-> ys[i] * ys[i]])
        denominator == n * sum_xx - sum_x * sum_x
        num    == n * sum_xy - sum_x * sum_y
        slope  == Rat(num, denominator)
        ss_tot == Rat(n * sum_yy - sum_y * sum_y, n)
        ss_res == RSub(ss_tot, RMul(Rat(num, n), Rat(num, denominator)))
        r_squared == IF ss_tot.n > 0
                     THEN RSub(RInt(1), RDiv(ss_res, ss_tot))
                     ELSE RInt(0)
    IN  IF denominator # 0
        THEN [slope |-> slope, r_squared |-> RMax(RInt(0), RMin(RInt(1), r_squared))]
        ELSE old

\* _perform_trend_analysis
PerformTrendAnalysis(T, H) ==
    [c \in Channels |-> IF Len(H[c]) >= 10 THEN TrendOf(T[c], H[c]) ELSE T[c]]

\* a cooldown key per channel, shared by HIGH and CRITICAL
Mutant_AlarmKey(c, kind) == <<c, IF kind = "trend" THEN "trend" ELSE "threshold">>

\* the cooldown keys f"{sensor}_{severity}" and f"{sensor}_trend"
AlarmKey(c, kind) == <<c, kind>>

DictPut(f, k, v) == [x \in (DOMAIN f) \cup {k} |-> IF x = k THEN v ELSE f[x]]

\* the threshold loop body without the cooldown test
Mutant_CheckThresholdAlarm(acc, c, S, t) ==
    LET s == S[c]
        v == s.value
        severity == IF v > s.critical_threshold THEN "CRITICAL" ELSE "HIGH"
        key == AlarmKey(c, severity)
        alarm == [timestamp |-> t, sensor |-> c, severity |-> severity,
                  priority |-> IF severity = "CRITICAL" THEN 1 ELSE 2,
                  value |-> v,
                  threshold |-> IF severity = "CRITICAL" THEN s.critical_threshold
                                ELSE s.alarm_threshold]
    IN  IF ~(v > s.critical_threshold \/ v > s.alarm_threshold) THEN acc
        ELSE [new  |-> Append(acc.new, alarm),
              log  |-> Append(acc.log, alarm),
              last |-> DictPut(acc.last, key, t)]

\* body of the threshold loop of _check_comprehensive_alarms for channel c.
\* acc = [new |-> new_alarms, log |-> self.alarms, last |-> self.last_alarm_time]
CheckThresholdAlarm(acc, c, S, t) ==
    LET s == S[c]
        v == s.value
        severity == IF v > s.critical_threshold THEN "CRITICAL" ELSE "HIGH"
        key == AlarmKey(c, severity)
        alarm == [timestamp |-> t, sensor |-> c, severity |-> severity,
                  priority |-> IF severity = "CRITICAL" THEN 1 ELSE 2,
                  value |-> v,
                  threshold |-> IF severity = "CRITICAL" THEN s.critical_threshold
                                ELSE s.alarm_threshold]
    IN  IF ~(v > s.critical_threshold \/ v > s.alarm_threshold) THEN acc
        ELSE IF key \in DOMAIN acc.last /\ t - acc.last[key] < alarm_cooldown THEN acc
        ELSE [new  |-> Append(acc.new, alarm),
              log  |-> Append(acc.log, alarm),
              last |-> DictPut(acc.last, key, t)]

\* the trend alarm sharing the cooldown key of the HIGH alarm
Mutant_CheckTrendAlarm(acc, c, S, T, t) ==
    LET tr == T[c]
        current_value == S[c].value
        threshold == S[c].alarm_threshold
        predicted == RAdd(RInt(current_value), RMul(tr.slope, RInt(10)))
        key == AlarmKey(c, "HIGH")
        alarm == [timestamp |-> t, sensor |-> c, severity |-> "MEDIUM",
                  priority |-> 3, value |-> current_value, threshold |-> threshold]
    IN  IF ~(RLess(Rat(7, 10), tr.r_squared) /\ tr.slope.n > 0) THEN acc
        ELSE IF ~RLess(RInt(threshold), predicted) THEN acc
        ELSE IF ~(key \notin DOMAIN acc.last \/ t - acc.last[key] > trend_cooldown) THEN acc
        ELSE [new  |-> Append(acc.new, alarm),
              log  |-> Append(acc.log, alarm),
              last |-> DictPut(acc.last, key, t)]

\* body of the loop of _check_trend_alarms for channel c
CheckTrendAlarm(acc, c, S, T, t) ==
    LET tr == T[c]
        current_value == S[c].value
        threshold == S[c].alarm_threshold
        predicted == RAdd(RInt(current_value), RMul(tr.slope, RInt(10)))
        key == AlarmKey(c, "trend")
        alarm == [timestamp |-> t, sensor |-> c, severity |-> "MEDIUM",
                  priority |-> 3, value |-> current_value, threshold |-> threshold]
    IN  IF ~(RLess(Rat(7, 10), tr.r_squared) /\ tr.slope.n > 0) THEN acc
        ELSE IF ~RLess(RInt(threshold), predicted) THEN acc
        ELSE IF ~(key \notin DOMAIN acc.last \/ t - acc.last[key] > trend_cooldown) THEN acc
        ELSE [new  |-> Append(acc.new, alarm),
              log  |-> Append(acc.log, alarm),
              last |-> DictPut(acc.last, key, t)]

RECURSIVE ThresholdLoop(_, _, _, _)
ThresholdLoop(acc, i, S, t) ==
    IF i = 0 THEN acc
    ELSE CheckThresholdAlarm(ThresholdLoop(acc, i - 1, S, t), ChannelOrder[i], S, t)

RECURSIVE TrendLoop(_, _, _, _, _)
TrendLoop(acc, i, S, T, t) ==
    IF i = 0 THEN acc
    ELSE CheckTrendAlarm(TrendLoop(acc, i - 1, S, T, t), ChannelOrder[i], S, T, t)

\* a log that keeps its oldest records
Mutant_LimitAlarms(log) == IF Len(log) > max_alarms THEN SubSeq(log, 1, max_alarms) ELSE log

\* "Limit alarm history": self.alarms = self.alarms[-cap:]
LimitAlarms(log) == IF Len(log) > max_alarms THEN Last(log, max_alarms) ELSE log

\* _check_comprehensive_alarms (with its call of _check_trend_alarms):
\* [new |-> the list returned, log |-> self.alarms, last |-> self.last_alarm_time]
CheckComprehensiveAlarms(log, last, S, T, t) ==
    LET a1 == ThresholdLoop([new |-> <<>>, log |-> log, last |-> last],
                            Len(ChannelOrder), S, t)
        a2 == TrendLoop(a1, Len(ChannelOrder), S, T, t)
    IN  [a2 EXCEPT !.log = LimitAlarms(a2.log)]

Recommendation(type, priority, days) ==
    [type |-> type, priority |-> priority, estimated_days |-> days]

\* the scheduled-maintenance entry without its operating_hours > 500 guard
Mutant_GenerateMaintenanceRecommendations(health, F, hours) ==
    ((IF RLess(health, RInt(85))
     THEN <<Recommendation("General Inspection",
                           IF RLess(RInt(70), health) THEN "Medium" ELSE "High",
                           Max(1, RTrunc(RDiv(RSub(health, RInt(60)), RInt(5)))))>>
     ELSE <<>>)
    \o (IF RLess(Rat(7, 10), F.bearing_wear)
        THEN <<Recommendation("Bearing Replacement", "High", 7)>> ELSE <<>>)
    \o (IF RLess(Rat(6, 10), F.belt_degradation)
        THEN <<Recommendation("Belt Inspection", "Medium", 14)>> ELSE <<>>)
    \o (IF RLess(F.motor_efficiency, Rat(8, 10))
        THEN <<Recommendation("Motor Service", "Medium", 21)>> ELSE <<>>)
    \o (IF RLess(RMod(hours, 500), RInt(1))
        THEN <<Recommendation("Scheduled Maintenance", "Low", 30)>> ELSE <<>>))

\* _generate_maintenance_recommendations: the list rebuilt from scratch
GenerateMaintenanceRecommendations(health, F, hours) ==
    (IF RLess(health, RInt(85))
     THEN <<Recommendation("General Inspection",
                           IF RLess(RInt(70), health) THEN "Medium" ELSE "High",
                           Max(1, RTrunc(RDiv(RSub(health, RInt(60)), RInt(5)))))>>
     ELSE <<>>)
    \o (IF RLess(Rat(7, 10), F.bearing_wear)
        THEN <<Recommendation("Bearing Replacement", "High", 7)>> ELSE <<>>)
    \o (IF RLess(Rat(6, 10), F.belt_degradation)
        THEN <<Recommendation("Belt Inspection", "Medium", 14)>> ELSE <<>>)
    \o (IF RLess(F.motor_efficiency, Rat(8, 10))
        THEN <<Recommendation("Motor Service", "Medium", 21)>> ELSE <<>>)
    \o (IF RLess(RInt(500), hours) /\ RLess(RMod(hours, 500), RInt(1))
        THEN <<Recommendation("Scheduled Maintenance", "Low", 30)>> ELSE <<>>)

(***************************************************************************)
(* Transmission to the backend (PHPConnector)                              *)
(***************************************************************************)
SendMethods == {"send_sensor_data", "send_alarms", "send_performance_metrics",
                "send_maintenance_predictions", "update_machine_status"}

\* what one connector call can do: return True, return False, raise
Outcomes == {"ok", "false", "raise"}

Call(method, arg) == [method |-> method, arg |-> arg]

\* status passed to update_machine_status
MachineStatus(health, new) ==
    IF RLess(health, RInt(70)) THEN "Maintenance"
    ELSE IF \E i \in 1..Len(new) : new[i].severity = "CRITICAL" THEN "Error"
    ELSE "Running"

\* the connector calls of one transmission round, in program order
TransmissionCalls(new, recs, health) ==
    <<Call("send_sensor_data", <<>>)>>
    \o (IF new # <<>> THEN <<Call("send_alarms", new)>> ELSE <<>>)
    \o <<Call("send_performance_metrics", <<>>)>>
    \o (IF recs # <<>> THEN <<Call("send_maintenance_predictions", recs)>> ELSE <<>>)
    \o <<Call("update_machine_status",
              <<[status |-> MachineStatus(health, new), health_score |-> health]>>)>>

\* PHPConnector.send_maintenance_predictions builds each predicted_date with
\* timedelta, a name python_connector.py never imports at module level: the
\* call raises NameError whenever it is given a non-empty list.  Every other
\* send_* ends as the backend decides (behaviour[method]).
SendOutcome(call, behaviour) ==
    IF call.method = "send_maintenance_predictions" /\ call.arg # <<>>
    THEN "raise"
    ELSE behaviour[call.method]

\* index of the first call that raises, 0 if none does
RECURSIVE FirstRaise(_, _, _)
FirstRaise(cs, behaviour, i) ==
    IF i > Len(cs) THEN 0
    ELSE IF SendOutcome(cs[i], behaviour) = "raise" THEN i
    ELSE FirstRaise(cs, behaviour, i + 1)

\* _handle_data_transmission at time t: the calls made on the connector, the
\* new last_transmission, and whether an exception was caught and logged
HandleDataTransmission(t, last_tx, present, conn, behaviour, new, recs, health) ==
    IF ~(t - last_tx >= transmission_interval)
    THEN [calls |-> <<>>, last_transmission |-> last_tx, caught |-> FALSE]
    ELSE IF ~(present /\ conn)
    THEN [calls |-> <<>>, last_transmission |-> last_tx, caught |-> FALSE]
    ELSE LET cs == TransmissionCalls(new, recs, health)
             k  == FirstRaise(cs, behaviour, 1)
         IN  IF k = 0
             THEN [calls |-> cs, last_transmission |-> t, caught |-> FALSE]
             ELSE [calls |-> SubSeq(cs, 1, k), last_transmission |-> last_tx,
                   caught |-> TRUE]

(***************************************************************************)
(* State                                                                   *)
(***************************************************************************)
VARIABLES
    sensors,                      \* self.sensors
    history,                      \* self.history
    alarms,                       \* self.alarms
    last_alarm_time,              \* self.last_alarm_time
    health_score,                 \* self.health_score
    remaining_useful_life,        \* self.remaining_useful_life
    operating_hours,              \* self.operating_hours
    reading_count,                \* self.reading_count
    trend_data,                   \* self.trend_data
    failure_indicators,           \* self.failure_indicators
    maintenance_recommendations,  \* self.maintenance_recommendations
    last_transmission,            \* self.last_transmission
    php_connector,                \* whether a connector was passed to __init__
    connected,                    \* php_connector.connected
    now,                          \* the wall clock (datetime.now(), time.time())
    new_alarms,                   \* the list the last _check_comprehensive_alarms returned
    calls,                        \* connector calls made by the last update_sensors
    emitted,                      \* every alarm record emitted so far, in order
    last_op                       \* the last operation called and its arguments

ess_vars == <<sensors, history, alarms, last_alarm_time, health_score,
              remaining_useful_life, operating_hours, reading_count, trend_data,
              failure_indicators, maintenance_recommendations, last_transmission,
              php_connector, connected, now, new_alarms, calls, emitted, last_op>>

\* EnhancedSensorSystem.__init__ (conn: a connector was passed; up: it is connected)
InitEnhanced(conn, up) ==
    /\ sensors = InitSensors
    /\ history = [c \in Channels |-> <<>>]
    /\ alarms = <<>>
    /\ last_alarm_time = <<>>
    /\ health_score = RInt(100)
    /\ remaining_useful_life = RInt(85)
    /\ operating_hours = RInt(0)
    /\ reading_count = 0
    /\ trend_data = [c \in Channels |-> [slope |-> RInt(0), r_squared |-> RInt(0)]]
    /\ failure_indicators = [bearing_wear |-> RInt(0), belt_degradation |-> RInt(0),
                             motor_efficiency |-> RInt(1), lubrication_quality |-> RInt(1)]
    /\ maintenance_recommendations = <<>>
    /\ last_transmission = 0
    /\ php_connector = conn
    /\ connected = up
    /\ now = StartTime
    /\ new_alarms = <<>>
    /\ calls = <<>>
    /\ emitted = <<>>
    /\ last_op = [op |-> "__init__"]

\* update_sensors in which an exception of the transmission escapes before
\* the recommendations are stored
Mutant_Update(in, present, conn) ==
    LET t     == now + in.dt
        hours == Rat(in.operating_time, 3600)
        S     == EnforceSensorBounds(
                     AddRealisticNoise(
                         ApplySensorCalibration(UpdateRawValues(sensors, in.raw)),
                         in.noise))
        H     == StoreHistoricalData(history, S, t)
        hs    == UpdateHealthScore(S, hours, alarms)
        F     == UpdateFailureIndicators(failure_indicators, S, trend_data, hours)
        T     == IF Len(H["speed_rpm"]) > 10
                 THEN PerformTrendAnalysis(trend_data, H) ELSE trend_data
        A     == CheckComprehensiveAlarms(alarms, last_alarm_time, S, T, t)
        R     == GenerateMaintenanceRecommendations(hs, F, hours)
        X     == HandleDataTransmission(t, last_transmission, present, conn,
                                        in.behaviour, A.new, R, hs)
    IN  [sensors |-> S, history |-> H, alarms |-> A.log, last_alarm_time |-> A.last,
         health_score |-> hs, remaining_useful_life |-> RemainingUsefulLife(F),
         operating_hours |-> hours, trend_data |-> T, failure_indicators |-> F,
         maintenance_recommendations |->
             IF X.caught THEN maintenance_recommendations ELSE R,
         new_alarms |-> A.new,
         last_transmission |-> X.last_transmission, calls |-> X.calls, now |-> t]

\* what update_sensors(in) stores, computed from the current state.
\* in = [raw, noise : one number per channel, operating_time : seconds,
\*       dt : seconds since the previous operation, behaviour : outcome per send_*]
\* present / conn stand for self.php_connector and its connected flag.
Update(in, present, conn) ==
    LET t     == now + in.dt
        hours == Rat(in.operating_time, 3600)
        S     == EnforceSensorBounds(
                     AddRealisticNoise(
                         ApplySensorCalibration(UpdateRawValues(sensors, in.raw)),
                         in.noise))
        H     == StoreHistoricalData(history, S, t)
        hs    == UpdateHealthScore(S, hours, alarms)
        F     == UpdateFailureIndicators(failure_indicators, S, trend_data, hours)
        T     == IF Len(H["speed_rpm"]) > 10
                 THEN PerformTrendAnalysis(trend_data, H) ELSE trend_data
        A     == CheckComprehensiveAlarms(alarms, last_alarm_time, S, T, t)
        R     == GenerateMaintenanceRecommendations(hs, F, hours)
        X     == HandleDataTransmission(t, last_transmission, present, conn,
                                        in.behaviour, A.new, R, hs)
    IN  [sensors |-> S, history |-> H, alarms |-> A.log, last_alarm_time |-> A.last,
         health_score |-> hs, remaining_useful_life |-> RemainingUsefulLife(F),
         operating_hours |-> hours, trend_data |-> T, failure_indicators |-> F,
         maintenance_recommendations |-> R, new_alarms |-> A.new,
         last_transmission |-> X.last_transmission, calls |-> X.calls, now |-> t]

\* the assignments of one update_sensors call whose results are u.  The body
\* of update_sensors is one try / except Exception that only logs, so the
\* call never raises to its caller (raised is FALSE).
Store(u, in) ==
    /\ sensors' = u.sensors
    /\ history' = u.history
    /\ alarms' = u.alarms
    /\ last_alarm_time' = u.last_alarm_time
    /\ health_score' = u.health_score
    /\ remaining_useful_life' = u.remaining_useful_life
    /\ operating_hours' = u.operating_hours
    /\ reading_count' = reading_count + 1
    /\ trend_data' = u.trend_data
    /\ failure_indicators' = u.failure_indicators
    /\ maintenance_recommendations' = u.maintenance_recommendations
    /\ last_transmission' = u.last_transmission
    /\ now' = u.now
    /\ new_alarms' = u.new_alarms
    /\ calls' = u.calls
    /\ emitted' = emitted \o u.new_alarms
    /\ last_op' = [op |-> "update_sensors", in |-> in, raised |-> FALSE]
    /\ UNCHANGED <<php_connector, connected>>

\* update_sensors(belt_speed, material_count, operating_time)
UpdateSensors(in) == Store(Update(in, php_connector, connected), in)

(***************************************************************************)
(* Configuration operations and the read path of EnhancedSensorSystem      *)
(***************************************************************************)

\* set_thresholds with the critical branch assigning the alarm threshold
Mutant_SetThresholdsResult(S, sensor_name, alarm_threshold, critical_threshold) ==
    IF sensor_name \in DOMAIN S
    THEN [S EXCEPT ![sensor_name] =
            [@ EXCEPT !.alarm_threshold =
                          IF critical_threshold # None THEN critical_threshold[1]
                          ELSE IF alarm_threshold # None THEN alarm_threshold[1] ELSE @]]
    ELSE S

\* set_thresholds: the sensor table it leaves
SetThresholdsResult(S, sensor_name, alarm_threshold, critical_threshold) ==
    IF sensor_name \in DOMAIN S
    THEN [S EXCEPT ![sensor_name] =
            [@ EXCEPT !.alarm_threshold =
                          IF alarm_threshold # None THEN alarm_threshold[1] ELSE @,
                      !.critical_threshold =
                          IF critical_threshold # None THEN critical_threshold[1] ELSE @]]
    ELSE S

\* calibrate_sensor: the sensor table it leaves
CalibrateSensorResult(S, sensor_name, calibration_factor) ==
    IF sensor_name \in DOMAIN S
    THEN [S EXCEPT ![sensor_name].calibration_factor = calibration_factor]
    ELSE S

\* one entry of the list get_sensor_config returns
ConfigEntry(type, threshold_value, max_value) ==
    [type |-> type, threshold_value |-> threshold_value, max_value |-> max_value]

\* the loop of load_sensor_config over the first i entries of config
RECURSIVE ApplyConfig(_, _, _)
ApplyConfig(S, config, i) ==
    IF i = 0 THEN S
    ELSE LET S1 == ApplyConfig(S, config, i - 1)
             e  == config[i]
         IN  IF e.type \in DOMAIN S1
             THEN [S1 EXCEPT ![e.type] =
                     [@ EXCEPT !.alarm_threshold =
                                   IF e.threshold_value # None
                                   THEN e.threshold_value[1] ELSE @,
                               !.max = IF e.max_value # None THEN e.max_value[1] ELSE @]]
             ELSE S1

\* load_sensor_config: the sensor table it leaves; config is what
\* get_sensor_config returned (<<>>: None or an empty list)
LoadSensorConfigResult(S, present, conn, config) ==
    IF present /\ conn /\ config # <<>> THEN ApplyConfig(S, config, Len(config)) ELSE S

\* a status that is CRITICAL from the critical threshold on
Mutant_ChannelStatus(s) ==
    IF s.value >= s.critical_threshold THEN "CRITICAL"
    ELSE IF s.value > s.alarm_threshold THEN "ALARM"
    ELSE "NORMAL"

\* status of one channel in get_current_readings
ChannelStatus(s) ==
    IF s.value > s.critical_threshold THEN "CRITICAL"
    ELSE IF s.value > s.alarm_threshold THEN "ALARM"
    ELSE "NORMAL"

\* get_current_readings
GetCurrentReadings(S) ==
    [c \in Channels |-> [value |-> S[c].value, status |-> ChannelStatus(S[c])]]

ess_rest == <<history, alarms, last_alarm_time, health_score, remaining_useful_life,
              operating_hours, reading_count, trend_data, failure_indicators,
              maintenance_recommendations, last_transmission, php_connector,
              connected, now, new_alarms, calls, emitted>>

\* set_thresholds(sensor_name, alarm_threshold=None, critical_threshold=None)
SetThresholds(sensor_name, alarm_threshold, critical_threshold) ==
    /\ sensors' = SetThresholdsResult(sensors, sensor_name, alarm_threshold,
                                      critical_threshold)
    /\ last_op' = [op |-> "set_thresholds", sensor_name |-> sensor_name,
                   alarm_threshold |-> alarm_threshold,
                   critical_threshold |-> critical_threshold]
    /\ UNCHANGED ess_rest

\* calibrate_sensor(sensor_name, calibration_factor)
CalibrateSensor(sensor_name, calibration_factor) ==
    /\ sensors' = CalibrateSensorResult(sensors, sensor_name, calibration_factor)
    /\ last_op' = [op |-> "calibrate_sensor", sensor_name |-> sensor_name]
    /\ UNCHANGED ess_rest

\* load_sensor_config(), the backend answering with config
LoadSensorConfig(config) ==
    /\ sensors' = LoadSensorConfigResult(sensors, php_connector, connected, config)
    /\ last_op' = [op |-> "load_sensor_config"]
    /\ UNCHANGED ess_rest

(***************************************************************************)
(* SensorSystem of main9.py (bucket elevator) and convy.py (conveyor)      *)
(***************************************************************************)
Machines == {"enhanced", "main9", "convy"}

ConvyChannels == {"speed", "load", "temperature", "vibration", "current", "slippage"}

ConvyOrder == <<"speed", "load", "temperature", "vibration", "current", "slippage">>

SSChannels(m) == IF m = "convy" THEN ConvyChannels ELSE Channels

SSOrder(m) == IF m = "convy" THEN ConvyOrder ELSE ChannelOrder

SSSensor(v, lo, hi, al) == [value |-> v, min |-> lo, max |-> hi, alarm_threshold |-> al]

\* SensorSystem.__init__ of main9.py
Main9Sensors ==
    [c \in Channels |->
        CASE c = "speed_rpm"     -> SSSensor(0, 0, 100, 90)
          [] c = "load_kg"       -> SSSensor(0, 0, 1000, 900)
          [] c = "temperature_c" -> SSSensor(25, 20, 80, 70)
          [] c = "vibration_ms2" -> SSSensor(0, 0, 20, 15)
          [] c = "current_a"     -> SSSensor(0, 0, 50, 45)]

\* SensorSystem.__init__ of convy.py; the speed channel (max 4, threshold 3.2
\* m/s) is kept in tenths of a m/s
ConvySensors ==
    [c \in ConvyChannels |->
        CASE c = "speed"       -> SSSensor(0, 0, 40, 32)
          [] c = "load"        -> SSSensor(0, 0, 100, 85)
          [] c = "temperature" -> SSSensor(25, 20, 80, 70)
          [] c = "vibration"   -> SSSensor(0, 0, 20, 15)
          [] c = "current"     -> SSSensor(0, 0, 50, 45)
          [] c = "slippage"    -> SSSensor(0, 0, 10, 8)]

\* capacity of a SensorSystem history buffer (100 in the source), scaled down
ss_max_history == 2

VARIABLES
    machine,      \* which sensor class the running program instantiates
    ss_sensors,   \* SensorSystem.sensors
    ss_history,   \* SensorSystem.history
    ss_alarms,    \* SensorSystem.alarms
    ss_ticks      \* number of SensorSystem.update_sensors calls so far

ss_vars == <<ss_sensors, ss_history, ss_alarms, ss_ticks>>

InitSensorSystem(m) ==
    /\ ss_sensors = IF m = "convy" THEN ConvySensors ELSE Main9Sensors
    /\ ss_history = [c \in SSChannels(m) |-> <<>>]
    /\ ss_alarms = <<>>
    /\ ss_ticks = 0

\* the sensor formulas of SensorSystem.update_sensors followed by the clamp.
\* raw[c] is the value of the formula of channel c (inputs plus
\* random.uniform noise); convy.py caps the load formula at 100.
SSNewValues(m, S, raw) ==
    [c \in DOMAIN S |->
        LET v == IF m = "convy" /\ c = "load" THEN Min(100, raw[c]) ELSE raw[c]
        IN  [S[c] EXCEPT !.value = BoundValue([S[c] EXCEPT !.value = v])]]

\* "Store history" of SensorSystem.update_sensors
SSStoreHistory(H, S, t) ==
    [c \in DOMAIN S |->
        AppendBounded(H[c], [timestamp |-> t, value |-> S[c].value], ss_max_history)]

\* SensorSystem.check_alarms over the first i channels
RECURSIVE SSCheckAlarms(_, _, _, _, _)
SSCheckAlarms(log, order, i, S, t) ==
    IF i = 0 THEN log
    ELSE LET l1 == SSCheckAlarms(log, order, i - 1, S, t)
             s  == S[order[i]]
         IN  IF s.value > s.alarm_threshold
             THEN Append(l1, [timestamp |-> t, sensor |-> order[i], value |-> s.value,
                              threshold |-> s.alarm_threshold,
                              severity |-> IF 10 * s.value > 11 * s.alarm_threshold
                                           THEN "HIGH" ELSE "MEDIUM"])
             ELSE l1

\* SensorSystem.update_sensors(belt_speed, material_count, operating_time)
SSUpdateSensors(raw, dt) ==
    LET t == now + dt
        S == SSNewValues(machine, ss_sensors, raw)
    IN  /\ ss_sensors' = S
        /\ ss_history' = SSStoreHistory(ss_history, S, t)
        /\ ss_alarms' = SSCheckAlarms(ss_alarms, SSOrder(machine),
                                      Len(SSOrder(machine)), S, t)
        /\ ss_ticks' = ss_ticks + 1
        /\ now' = t
        /\ last_op' = [op |-> "ss_update_sensors"]
        /\ UNCHANGED <<sensors, history, alarms, last_alarm_time, health_score,
                       remaining_useful_life, operating_hours, reading_count,
                       trend_data, failure_indicators, maintenance_recommendations,
                       last_transmission, php_connector, connected, new_alarms,
                       calls, emitted, machine>>

(***************************************************************************)
(* app.py: the simulation flag and the simulate_system_data threads, and   *)
(* the retry counter of PHPConnector                                       *)
(***************************************************************************)
VARIABLES
    sim_running, \* simulation_data[system_type]['running']
    sim_loops,   \* the simulate_system_data threads started so far
    sim_req,     \* where each request thread stands in start_simulation
    retry_count  \* PHPConnector.retry_count

sim_vars == <<sim_running, sim_loops, sim_req>>

SystemTypes == {"conveyor", "bucket_elevator"}

\* request threads of the Flask server that can be inside a view at once
MaxRequests == 2

\* simulate_system_data threads started in one run
MaxLoops == 2

Requests == 1..MaxRequests

IdleRequest == [pc |-> "idle", system |-> "none"]

InitSimulation ==
    /\ sim_running = [st \in SystemTypes |-> FALSE]
    /\ sim_loops = <<>>
    /\ sim_req = [h \in Requests |-> IdleRequest]

\* PHPConnector.__init__ runs test_connection once
InitRetry == retry_count = IF php_connector /\ ~connected THEN 1 ELSE 0

(***************************************************************************)
(* main9.py and convy.py: PredictiveMaintenance, ControlSystem and the     *)
(* operating time the animation loop advances                              *)
(***************************************************************************)
VARIABLES
    pm_score,    \* PredictiveMaintenance.maintenance_score
    ctl,         \* the fields of ControlSystem (speeds in tenths of a m/s)
    plant_time,  \* operating_time of the machine, in frames of the animation
    frame_pc     \* where the animation thread stands in its current frame

plant_vars == <<pm_score, ctl, plant_time, frame_pc>>

\* ControlSystem.__init__: convy.py has no speed_adjustment
InitControl(m) ==
    IF m = "convy"
    THEN [auto_mode |-> TRUE, target_speed |-> 15, emergency_stop |-> FALSE]
    ELSE [auto_mode |-> TRUE, target_speed |-> 20, speed_adjustment |-> 0,
          emergency_stop |-> FALSE]

InitPlant ==
    /\ pm_score = RInt(100)
    /\ ctl = InitControl(machine)
    /\ plant_time = 0
    /\ frame_pc = "test"

\* the value of a channel under the name it has in main9.py
PlantValue(m, S, c) ==
    IF m = "convy"
    THEN S[CASE c = "temperature_c" -> "temperature"
             [] c = "vibration_ms2" -> "vibration"
             [] c = "current_a"     -> "current"
             [] c = "load_kg"       -> "load"
             [] OTHER               -> c].value
    ELSE S[c].value

\* one "impact" of analyze_trends: ratio = value / scale, and
\* (ratio - above) * weight when ratio > above
Mutant_Impact(v, scale, above, weight) ==
    RMul(RSub(Rat(v, scale), above), RInt(weight))

Impact(v, scale, above, weight) ==
    LET ratio == Rat(v, scale)
    IN  IF RLess(above, ratio) THEN RMul(RSub(ratio, above), RInt(weight))
        ELSE RInt(0)

\* degradation_factors of PredictiveMaintenance.analyze_trends
DegradationFactors(m, S) ==
    LET temp == Impact(PlantValue(m, S, "temperature_c"), 70, Rat(8, 10), 10)
        vib  == Impact(PlantValue(m, S, "vibration_ms2"), 15, Rat(7, 10), 15)
        curr == Impact(PlantValue(m, S, "current_a"), 45, Rat(8, 10), 8)
        slip == IF m = "convy" THEN Impact(S["slippage"].value, 8, Rat(8, 10), 12)
                ELSE RInt(0)
    IN  RAdd(RAdd(temp, vib), RAdd(curr, slip))

\* the new maintenance_score of PredictiveMaintenance.analyze_trends
AnalyzeTrends(m, score, S) ==
    RMax(RInt(0), RSub(score, RMul(DegradationFactors(m, S), Rat(1, 100))))

\* "Emergency conditions" of ControlSystem.update_control
EmergencyCondition(m, S) ==
    \/ PlantValue(m, S, "temperature_c") > 75
    \/ PlantValue(m, S, "vibration_ms2") > 18
    \/ PlantValue(m, S, "current_a") > 48
    \/ m = "convy" /\ S["slippage"].value > 9

\* "Speed control based on load" of ControlSystem.update_control
SpeedControl(m, c, S) ==
    LET load_ratio == Rat(PlantValue(m, S, "load_kg"), IF m = "convy" THEN 100 ELSE 800)
        high == RLess(Rat(9, 10), load_ratio)
        low  == RLess(load_ratio, Rat(3, 10))
    IN  IF m = "convy"
        THEN [c EXCEPT !.target_speed =
                 Max(5, Min(30, IF high THEN 8 ELSE IF low THEN 20 ELSE 15))]
        ELSE [c EXCEPT !.speed_adjustment = IF high THEN -5 ELSE IF low THEN 3 ELSE 0]

\* ControlSystem.update_control(sensor_system)
Mutant_UpdateControl(m, c, S) ==
    LET c1 == SpeedControl(m, c, S)
    IN  [c1 EXCEPT !.emergency_stop = EmergencyCondition(m, S)]

UpdateControl(m, c, S) ==
    IF ~c.auto_mode \/ c.emergency_stop THEN c
    ELSE LET c1 == SpeedControl(m, c, S)
         IN  IF EmergencyCondition(m, S) THEN [c1 EXCEPT !.emergency_stop = TRUE]
             ELSE c1

(***************************************************************************)
(* The monitoring thread of main9.py and a reader thread                   *)
(***************************************************************************)
VARIABLES
    pc,          \* where the monitoring thread stands in monitoring_loop
    pending,     \* arguments and random draws of the update_sensors call running
    rpc,         \* where the reader stands in its loop over self.sensors
    snapshot,    \* the channel values the reader has read so far, in order
    committed,   \* the channel values as they stood at the end of each tick
    due,         \* when the next tick starts if nothing holds the loop back
    wake_at,     \* when time.sleep(1) of the loop returns
    send_start   \* current_time taken by _handle_data_transmission

thr_vars == <<pc, pending, rpc, snapshot, committed, due, wake_at, send_start>>

\* the values of all channels, in dictionary order
Values(S) == [i \in 1..Len(ChannelOrder) |-> S[ChannelOrder[i]].value]

InitThreads ==
    /\ pc = "idle"
    /\ pending = <<>>
    /\ rpc = "idle"
    /\ snapshot = <<>>
    /\ committed = {Values(InitSensors)}
    /\ due = StartTime
    /\ wake_at = StartTime
    /\ send_start = 0

vars == <<ess_vars, machine, ss_vars, thr_vars, sim_vars, retry_count, plant_vars>>

(***************************************************************************)
(* Inputs                                                                  *)
(***************************************************************************)
Profile(s, l, t, v, c) ==
    [speed_rpm |-> s, load_kg |-> l, temperature_c |-> t, vibration_ms2 |-> v,
     current_a |-> c]

ZeroNoise == Profile(0, 0, 0, 0, 0)

AllOk == [m \in SendMethods |-> "ok"]

Input(raw, noise, operating_time, dt, behaviour) ==
    [raw |-> raw, noise |-> noise, operating_time |-> operating_time, dt |-> dt,
     behaviour |-> behaviour]

\* every channel inside its optimal range / above its maximum / below its
\* minimum
MidRaw == Profile(50, 500, 30, 5, 25)

OverRaw == Profile(150, 1200, 95, 30, 70)

UnderRaw == Profile(-10, -50, 5, -3, -5)

\* some channels above their maximum, the others below their minimum
WildRaw == Profile(150, -50, 95, -3, 70)

Jitter == Profile(1, -2, 1, -1, 1)

ConvyProfile(s, l, t, v, c, p) ==
    [speed |-> s, load |-> l, temperature |-> t, vibration |-> v, current |-> c,
     slippage |-> p]

SSProfiles(m) ==
    IF m = "convy"
    THEN {ConvyProfile(15, 60, 40, 5, 20, 2), ConvyProfile(50, 120, 90, 25, 60, 12),
          ConvyProfile(-1, -5, 10, -2, -3, -1)}
    ELSE {MidRaw, OverRaw, UnderRaw}

(***************************************************************************)
(* Spec: the operations of one sensor object called in any order          *)
(***************************************************************************)
ApiInputs ==
    {Input(MidRaw, Jitter, 3600, 1, AllOk), Input(WildRaw, ZeroNoise, 3600, 1, AllOk)}

ApiNames == {"temperature_c", "pressure"}

ApiConfigs ==
    {<<>>,
     <<ConfigEntry("temperature_c", Some(60), None)>>,
     <<ConfigEntry("temperature_c", None, Some(10)), ConfigEntry("pressure", Some(1), Some(2))>>}

Init ==
    /\ machine \in Machines
    /\ InitEnhanced(TRUE, TRUE)
    /\ InitSensorSystem(machine)
    /\ InitThreads
    /\ InitSimulation
    /\ InitRetry
    /\ InitPlant

ApiUpdate ==
    /\ machine = "enhanced"
    /\ reading_count < MaxTicks
    /\ \E in \in ApiInputs : UpdateSensors(in)
    /\ UNCHANGED <<machine, ss_vars, sim_vars, retry_count, plant_vars, thr_vars>>

ApiSetThresholds ==
    /\ machine = "enhanced"
    /\ \E n \in ApiNames, a \in {None, Some(65)}, c \in {None, Some(78)} :
          SetThresholds(n, a, c)
    /\ UNCHANGED <<machine, ss_vars, sim_vars, retry_count, plant_vars, thr_vars>>

ApiCalibrate ==
    /\ machine = "enhanced"
    /\ \E n \in ApiNames, f \in {-1, 2} : CalibrateSensor(n, f)
    /\ UNCHANGED <<machine, ss_vars, sim_vars, retry_count, plant_vars, thr_vars>>

ApiLoadConfig ==
    /\ machine = "enhanced"
    /\ \E cfg \in ApiConfigs : LoadSensorConfig(cfg)
    /\ UNCHANGED <<machine, ss_vars, sim_vars, retry_count, plant_vars, thr_vars>>

ApiSSUpdate ==
    /\ machine # "enhanced"
    /\ ss_ticks < MaxTicks
    /\ \E raw \in SSProfiles(machine) : SSUpdateSensors(raw, 1)
    /\ UNCHANGED <<thr_vars, sim_vars, retry_count, plant_vars>>

Next ==
    \/ ApiUpdate
    \/ ApiSetThresholds
    \/ ApiCalibrate
    \/ ApiLoadConfig
    \/ ApiSSUpdate

Spec == Init /\ [][Next]_vars

(***************************************************************************)
(* SpecAlarm: update_sensors calls a few seconds apart, the speed and the  *)
(* temperature channel moving around their thresholds                      *)
(***************************************************************************)
AlarmTicks == MaxTicks + 1

AlarmRaws ==
    {[MidRaw EXCEPT !.speed_rpm = 92], [MidRaw EXCEPT !.speed_rpm = 93],
     [MidRaw EXCEPT !.speed_rpm = 96], [MidRaw EXCEPT !.speed_rpm = 92, !.temperature_c = 72],
     [MidRaw EXCEPT !.speed_rpm = 95, !.temperature_c = 70], MidRaw}

InitAlarm ==
    /\ machine = "enhanced"
    /\ InitEnhanced(TRUE, TRUE)
    /\ InitSensorSystem(machine)
    /\ InitThreads
    /\ InitSimulation
    /\ InitRetry
    /\ InitPlant

AlarmUpdate ==
    /\ reading_count < AlarmTicks
    /\ \E raw \in AlarmRaws, dt \in {5, 25} :
          UpdateSensors(Input(raw, ZeroNoise, 3600, dt, AllOk))
    /\ UNCHANGED <<machine, ss_vars, sim_vars, retry_count, plant_vars, thr_vars>>

\* a display calls get_current_readings()
AlarmRead ==
    /\ last_op' = [op |-> "get_current_readings", result |-> GetCurrentReadings(sensors)]
    /\ UNCHANGED <<sensors, ess_rest, machine, ss_vars, sim_vars,
                   retry_count, plant_vars, thr_vars>>

NextAlarm ==
    \/ AlarmUpdate
    \/ AlarmRead

SpecAlarm == InitAlarm /\ [][NextAlarm]_vars

(***************************************************************************)
(* SpecTrend: runs long enough to fill the history buffers and the alarm   *)
(* log and to start the trend analysis                                     *)
(***************************************************************************)
\* update_sensors analyses trends once a history holds more than 10 points
TrendWarmUp == 10

TrendTicks == max_history_points + 2

\* four channels steady above their alarm thresholds, the temperature
\* climbing 3 degrees a reading (rising) or back at 30 with the speed above
\* its critical threshold and the vibration fallen to 4
TrendRaw(k, rising) ==
    IF rising THEN Profile(92, 920, 30 + 3 * k, 16, 46)
    ELSE Profile(96, 920, 30, 4, 46)

\* the temperature jumps over its alarm threshold while its trend is upward
HotRaw == Profile(92, 920, 72, 16, 46)

InitTrend ==
    /\ machine \in Machines
    /\ InitEnhanced(TRUE, TRUE)
    /\ InitSensorSystem(machine)
    /\ InitThreads
    /\ InitSimulation
    /\ InitRetry
    /\ InitPlant

TrendWarmUpUpdate ==
    /\ machine = "enhanced"
    /\ reading_count < TrendWarmUp
    /\ UpdateSensors(Input(TrendRaw(reading_count, TRUE), ZeroNoise, 3600,
                           alarm_cooldown, AllOk))
    /\ UNCHANGED <<machine, ss_vars, sim_vars, retry_count, plant_vars, thr_vars>>

TrendUpdate ==
    /\ machine = "enhanced"
    /\ reading_count >= TrendWarmUp
    /\ reading_count < TrendTicks
    /\ \E raw \in {TrendRaw(reading_count, TRUE), TrendRaw(reading_count, FALSE), HotRaw},
          dt \in {15, 150, 301} :
          UpdateSensors(Input(raw, ZeroNoise, 3600, dt, AllOk))
    /\ UNCHANGED <<machine, ss_vars, sim_vars, retry_count, plant_vars, thr_vars>>

TrendSSUpdate ==
    /\ machine # "enhanced"
    /\ ss_ticks < ss_max_history + 2
    /\ \E raw \in SSProfiles(machine) : SSUpdateSensors(raw, 1)
    /\ UNCHANGED <<thr_vars, sim_vars, retry_count, plant_vars>>

NextTrend ==
    \/ TrendWarmUpUpdate
    \/ TrendUpdate
    \/ TrendSSUpdate

SpecTrend == InitTrend /\ [][NextTrend]_vars

(***************************************************************************)
(* SpecConn: update_sensors with no connector, a disconnected connector,   *)
(* and a connector whose calls succeed, return False or raise              *)
(***************************************************************************)
AllFalse == [m \in SendMethods |-> "false"]

RaiseAt(method) == [m \in SendMethods |-> IF m = method THEN "raise" ELSE "ok"]

ConnBehaviours ==
    {AllOk, AllFalse, RaiseAt("send_sensor_data"), RaiseAt("send_alarms"),
     RaiseAt("update_machine_status")}

InitConn ==
    /\ machine = "enhanced"
    /\ \E conn \in BOOLEAN, up \in BOOLEAN : (up => conn) /\ InitEnhanced(conn, up)
    /\ InitSensorSystem(machine)
    /\ InitThreads
    /\ InitSimulation
    /\ InitRetry
    /\ InitPlant

ConnUpdate ==
    /\ reading_count < MaxTicks
    /\ \E raw \in {MidRaw, WildRaw}, dt \in {1, 3}, b \in ConnBehaviours :
          UpdateSensors(Input(raw, ZeroNoise, 3600, dt, b))
    /\ UNCHANGED <<machine, ss_vars, sim_vars, retry_count, plant_vars, thr_vars>>

NextConn == ConnUpdate

SpecConn == InitConn /\ [][NextConn]_vars

(***************************************************************************)
(* SpecThreads: monitoring_loop of main9.py running update_sensors step by *)
(* step while another thread reads self.sensors channel by channel.  No    *)
(* lock is taken anywhere, so the steps of the two threads interleave.     *)
(***************************************************************************)
\* time.sleep(1) of monitoring_loop
monitor_period == 1

\* PHPConnector.timeout, the limit requests puts on one call
request_timeout == 10

\* the longest the backend takes to answer in a run, in seconds
MaxSendDelay == 2

ThreadInputs ==
    {Input(MidRaw, Jitter, 3600, 0, AllOk), Input(WildRaw, ZeroNoise, 3600, 0, AllOk)}

InitThreadsSpec ==
    /\ machine = "enhanced"
    /\ InitEnhanced(TRUE, TRUE)
    /\ InitSensorSystem(machine)
    /\ InitThreads
    /\ InitSimulation
    /\ InitRetry
    /\ InitPlant

thr_ess_rest == <<history, alarms, last_alarm_time, health_score, remaining_useful_life,
                  operating_hours, reading_count, trend_data, failure_indicators,
                  maintenance_recommendations, last_transmission, php_connector,
                  connected, new_alarms, calls, emitted>>

\* the loop calls update_sensors, which runs _update_speed_sensor ..
\* _update_current_sensor
MonitorCall ==
    /\ pc = "idle"
    /\ now >= wake_at
    /\ reading_count < MaxTicks
    /\ \E in \in ThreadInputs :
          /\ pending' = in
          /\ sensors' = UpdateRawValues(sensors, in.raw)
    /\ pc' = "calibrate"
    /\ last_op' = [op |-> "update_sensors entered"]
    /\ UNCHANGED <<thr_ess_rest, now, machine, ss_vars, sim_vars,
                   retry_count, plant_vars, rpc, snapshot, committed, due,
                   wake_at, send_start>>

MonitorCalibrate ==
    /\ pc = "calibrate"
    /\ sensors' = ApplySensorCalibration(sensors)
    /\ pc' = "noise"
    /\ UNCHANGED <<thr_ess_rest, now, last_op, machine, ss_vars, sim_vars,
                   retry_count, plant_vars, pending, rpc, snapshot,
                   committed, due, wake_at, send_start>>

MonitorNoise ==
    /\ pc = "noise"
    /\ sensors' = AddRealisticNoise(sensors, pending.noise)
    /\ pc' = "bounds"
    /\ UNCHANGED <<thr_ess_rest, now, last_op, machine, ss_vars, sim_vars,
                   retry_count, plant_vars, pending, rpc, snapshot,
                   committed, due, wake_at, send_start>>

\* _enforce_sensor_bounds: from here on the values are those of the end of
\* the tick
MonitorBounds ==
    /\ pc = "bounds"
    /\ sensors' = EnforceSensorBounds(sensors)
    /\ committed' = committed \cup {Values(sensors')}
    /\ pc' = "compute"
    /\ UNCHANGED <<thr_ess_rest, now, last_op, machine, ss_vars, sim_vars,
                   retry_count, plant_vars, pending, rpc, snapshot,
                   due, wake_at, send_start>>

\* the test that opens _handle_data_transmission
TransmissionDue(t, last_tx, present, conn) ==
    t - last_tx >= transmission_interval /\ present /\ conn

\* _store_historical_data .. _generate_maintenance_recommendations, then the
\* entry of _handle_data_transmission
MonitorCompute ==
    /\ pc = "compute"
    /\ Store(Update(pending, FALSE, FALSE), pending)
    /\ due' = now + monitor_period
    /\ IF TransmissionDue(now, last_transmission, php_connector, connected)
       THEN pc' = "sending" /\ send_start' = now /\ UNCHANGED wake_at
       ELSE pc' = "idle" /\ wake_at' = now + monitor_period /\ UNCHANGED send_start
    /\ UNCHANGED <<machine, ss_vars, sim_vars,
                   retry_count, plant_vars, pending, rpc, snapshot, committed>>

\* the thread waits inside a connector call for the backend to answer
MonitorWaitSend ==
    /\ pc = "sending"
    /\ now - send_start < Min(MaxSendDelay, request_timeout)
    /\ now' = now + 1
    /\ UNCHANGED <<sensors, thr_ess_rest, last_op, machine, ss_vars, sim_vars,
                   retry_count, plant_vars, thr_vars>>

\* the connector calls have returned (or raised): update_sensors returns and
\* the loop goes to sleep
MonitorSendReturn ==
    /\ pc = "sending"
    /\ LET X == HandleDataTransmission(send_start, last_transmission, php_connector,
                                       connected, pending.behaviour, new_alarms,
                                       maintenance_recommendations, health_score)
       IN  /\ last_transmission' = X.last_transmission
           /\ calls' = X.calls
    /\ pc' = "idle"
    /\ wake_at' = now + monitor_period
    /\ UNCHANGED <<sensors, history, alarms, last_alarm_time, health_score,
                   remaining_useful_life, operating_hours, reading_count, trend_data,
                   failure_indicators, maintenance_recommendations, php_connector,
                   connected, new_alarms, emitted, now, last_op, machine, ss_vars, sim_vars,
                   retry_count, plant_vars,
                   pending, rpc, snapshot, committed, due, send_start>>

\* time passes in time.sleep(1)
MonitorSleep ==
    /\ pc = "idle"
    /\ now < wake_at
    /\ now' = now + 1
    /\ UNCHANGED <<sensors, thr_ess_rest, last_op, machine, ss_vars, sim_vars,
                   retry_count, plant_vars, thr_vars>>

\* the reader enters its loop over self.sensors.items()
ReadStart ==
    /\ rpc \in {"idle", "done"}
    /\ rpc' = "reading"
    /\ snapshot' = <<>>
    /\ UNCHANGED <<ess_vars, machine, ss_vars, sim_vars,
                   retry_count, plant_vars, pc, pending, committed, due, wake_at,
                   send_start>>

\* the reader takes data['value'] of the next channel
ReadChannel ==
    /\ rpc = "reading"
    /\ snapshot' = Append(snapshot, sensors[ChannelOrder[Len(snapshot) + 1]].value)
    /\ rpc' = IF Len(snapshot') = Len(ChannelOrder) THEN "done" ELSE "reading"
    /\ UNCHANGED <<ess_vars, machine, ss_vars, sim_vars,
                   retry_count, plant_vars, pc, pending, committed, due, wake_at,
                   send_start>>

NextThreads ==
    \/ MonitorCall
    \/ MonitorCalibrate
    \/ MonitorNoise
    \/ MonitorBounds
    \/ MonitorCompute
    \/ MonitorWaitSend
    \/ MonitorSendReturn
    \/ MonitorSleep
    \/ ReadStart
    \/ ReadChannel

SpecThreads == InitThreadsSpec /\ [][NextThreads]_vars

(***************************************************************************)
(* SpecAnomaly: update_sensors when the formula of one channel yields NaN  *)
(* or an infinity.  Floats are [kind, v]: a number v, NaN, or an infinity  *)
(* of sign v; comparisons, min and max follow Python.                      *)
(***************************************************************************)
F(v) == [kind |-> "num", v |-> v]

NaN == [kind |-> "nan", v |-> 0]

PosInf == [kind |-> "inf", v |-> 1]

NegInf == [kind |-> "inf", v |-> -1]

\* a < b on floats: every comparison with NaN is False
FLess(a, b) ==
    IF a.kind = "nan" \/ b.kind = "nan" THEN FALSE
    ELSE IF a.kind = "inf" /\ b.kind = "inf" THEN a.v < b.v
    ELSE IF a.kind = "inf" THEN a.v < 0
    ELSE IF b.kind = "inf" THEN b.v > 0
    ELSE a.v < b.v

\* min(a, b) and max(a, b) of Python: the first argument unless the second
\* compares smaller (greater)
PyMin(a, b) == IF FLess(b, a) THEN b ELSE a

PyMax(a, b) == IF FLess(a, b) THEN b ELSE a

\* a * k and a + k for a finite number k
FMul(a, k) ==
    IF a.kind = "nan" THEN NaN
    ELSE IF a.kind = "inf"
         THEN (IF k = 0 THEN NaN ELSE IF k > 0 THEN a ELSE [a EXCEPT !.v = -a.v])
    ELSE F(a.v * k)

FAdd(a, k) == IF a.kind = "num" THEN F(a.v + k) ELSE a

\* the value of channel c along update_sensors when its formula yields x:
\* computed is the value _enforce_sensor_bounds finds, stored the one it
\* leaves
FloatPipeline(s, c, x, noise) ==
    LET r   == IF c = "speed_rpm" THEN PyMax(F(0), x) ELSE x
        cal == FMul(r, s.calibration_factor)
        adj == IF c = "vibration_ms2" THEN PyMax(F(0), cal) ELSE cal
        nz  == FAdd(adj, noise)
    IN  [computed |-> nz, stored |-> PyMax(F(s.min), PyMin(F(s.max), nz))]

AnomalyTicks == MaxTicks

InitAnomaly ==
    /\ machine = "enhanced"
    /\ InitEnhanced(TRUE, TRUE)
    /\ InitSensorSystem(machine)
    /\ InitThreads
    /\ InitSimulation
    /\ InitRetry
    /\ InitPlant

\* update_sensors in which the formula of channel c yields x, the other
\* channels reading MidRaw.  The stored value of c is a number again, and the
\* call goes on with it as with any other reading.
AnomalyUpdate ==
    /\ reading_count < AnomalyTicks
    /\ \E c \in Channels : \E x \in {NaN, PosInf, NegInf, F(MidRaw[c])}, dt \in {1, 30} :
          LET p == FloatPipeline(sensors[c], c, x, 0)
          IN  Store(Update(Input([MidRaw EXCEPT ![c] = p.stored.v], ZeroNoise, 3600, dt,
                                 AllOk),
                           php_connector, connected),
                    [raw |-> [MidRaw EXCEPT ![c] = p.stored.v], noise |-> ZeroNoise,
                     operating_time |-> 3600, dt |-> dt, behaviour |-> AllOk,
                     anomaly |-> [channel |-> c, formula |-> x, computed |-> p.computed]])
    /\ UNCHANGED <<machine, ss_vars, sim_vars, retry_count, plant_vars, thr_vars>>

NextAnomaly == AnomalyUpdate

SpecAnomaly == InitAnomaly /\ [][NextAnomaly]_vars

(***************************************************************************)
(* SpecHealth: update_sensors over readings inside, at the edges of and    *)
(* outside the optimal ranges, on a new and on an aged machine             *)
(***************************************************************************)
\* the lower and the upper end of every optimal range
EdgeLowRaw == Profile(40, 400, 25, 2, 15)

EdgeHighRaw == Profile(60, 700, 45, 8, 35)

\* speed and load above their alarm thresholds, the rest optimal
HighRaw == Profile(92, 920, 30, 5, 25)

HealthRaws == {MidRaw, EdgeLowRaw, EdgeHighRaw, HighRaw, OverRaw, WildRaw}

\* operating_time in seconds: none, one hour, 500.5 hours, one year (8760
\* hours) and ten years
HealthTimes == {0, 3600, 1801800, 31536000, 315360000}

InitHealth ==
    /\ machine = "enhanced"
    /\ InitEnhanced(TRUE, TRUE)
    /\ InitSensorSystem(machine)
    /\ InitThreads
    /\ InitSimulation
    /\ InitRetry
    /\ InitPlant

HealthUpdate ==
    /\ reading_count < MaxTicks
    /\ \E raw \in HealthRaws, ot \in HealthTimes :
          UpdateSensors(Input(raw, ZeroNoise, ot, alarm_cooldown, AllOk))
    /\ UNCHANGED <<machine, ss_vars, sim_vars, retry_count, plant_vars, thr_vars>>

NextHealth == HealthUpdate

SpecHealth == InitHealth /\ [][NextHealth]_vars

(***************************************************************************)
(* SpecHold: one channel held outside its optimal range, at a value that   *)
(* raises no alarm, tick after tick on a machine that is new or one hour   *)
(* old, the other channels inside their optimal ranges                     *)
(***************************************************************************)
HoldTicks == 50

\* the held channel and its value: the temperature at its alarm threshold,
\* just outside its optimal range or at its minimum, another channel at zero
HeldValues ==
    {<<"temperature_c", 70>>, <<"temperature_c", 46>>, <<"temperature_c", 20>>,
     <<"speed_rpm", 0>>, <<"load_kg", 0>>, <<"vibration_ms2", 0>>, <<"current_a", 0>>}

HoldRaws ==
    {[base EXCEPT ![h[1]] = h[2]] : base \in {MidRaw, EdgeLowRaw, EdgeHighRaw},
                                    h \in HeldValues}

HoldTimes == {0, 3600}

InitHold ==
    /\ machine = "enhanced"
    /\ InitEnhanced(FALSE, FALSE)
    /\ InitSensorSystem(machine)
    /\ InitThreads
    /\ InitSimulation
    /\ InitRetry
    /\ InitPlant

HoldUpdate ==
    /\ reading_count < HoldTicks
    /\ \E raw \in HoldRaws, ot \in HoldTimes :
          /\ reading_count > 0 =>
                 raw = last_op.in.raw /\ ot = last_op.in.operating_time
          /\ UpdateSensors(Input(raw, ZeroNoise, ot, alarm_cooldown, AllOk))
    /\ UNCHANGED <<machine, ss_vars, sim_vars, retry_count, plant_vars, thr_vars>>

NextHold == HoldUpdate

SpecHold == InitHold /\ [][NextHold]_vars

(***************************************************************************)
(* SpecSend: update_sensors with a connected connector whose backend       *)
(* answers every request, the ticks 1 s or 3 s apart, so that some ticks   *)
(* fall between two transmission rounds                                    *)
(***************************************************************************)
SendTicks == MaxTicks + 1

SendRaws == {MidRaw, [MidRaw EXCEPT !.speed_rpm = 92], [MidRaw EXCEPT !.temperature_c = 76]}

InitSend ==
    /\ machine = "enhanced"
    /\ InitEnhanced(TRUE, TRUE)
    /\ InitSensorSystem(machine)
    /\ InitThreads
    /\ InitSimulation
    /\ InitRetry
    /\ InitPlant

SendUpdate ==
    /\ reading_count < SendTicks
    /\ \E raw \in SendRaws, dt \in {1, transmission_interval} :
          UpdateSensors(Input(raw, ZeroNoise, 0, dt, AllOk))
    /\ UNCHANGED <<machine, ss_vars, sim_vars, retry_count, plant_vars, thr_vars>>

NextSend == SendUpdate

SpecSend == InitSend /\ [][NextSend]_vars

(***************************************************************************)
(* SpecRetry: PHPConnector.test_connection called again and again, as the  *)
(* health monitor does while the connector is down                         *)
(***************************************************************************)
\* what one request of test_connection meets: status 200, another status, or
\* a requests.exceptions.RequestException
Responses == {"200", "500", "exception"}

max_retries == 3

LogRequest(attempt, r) ==
    [kind |-> "request", attempt |-> attempt, outcome |-> r, seconds |-> 0]

LogSleep(attempt) ==
    [kind |-> "sleep", attempt |-> attempt, outcome |-> "none", seconds |-> 2 ^ attempt]

\* the for loop of test_connection from the given attempt on; resp[attempt + 1]
\* is what that attempt meets, rc is retry_count at the call
RECURSIVE TestConnectionFrom(_, _, _, _)
TestConnectionFrom(attempt, resp, rc, log) ==
    IF attempt >= max_retries
    THEN [result |-> FALSE, connected |-> FALSE, retry_count |-> rc + 1, log |-> log]
    ELSE LET r == resp[attempt + 1]
             sent == Append(log, LogRequest(attempt, r))
         IN  IF r = "200"
             THEN [result |-> TRUE, connected |-> TRUE, retry_count |-> 0, log |-> sent]
             ELSE IF r = "exception" /\ attempt < max_retries - 1
             THEN TestConnectionFrom(attempt + 1, resp, rc,
                                     Append(sent, LogSleep(attempt)))
             ELSE TestConnectionFrom(attempt + 1, resp, rc, sent)

\* PHPConnector.test_connection
TestConnection(resp, rc) == TestConnectionFrom(0, resp, rc, <<>>)

\* failed calls in a row that one run follows
MaxFailedCalls == MaxTicks + 1

InitRetrySpec ==
    /\ machine = "enhanced"
    /\ \E up \in BOOLEAN : InitEnhanced(TRUE, up)
    /\ InitSensorSystem(machine)
    /\ InitThreads
    /\ InitSimulation
    /\ InitRetry
    /\ InitPlant

ConnTestConnection ==
    /\ php_connector
    /\ retry_count <= MaxFailedCalls
    /\ \E resp \in [1..max_retries -> Responses] :
          LET r == TestConnection(resp, retry_count)
          IN  /\ connected' = r.connected
              /\ retry_count' = r.retry_count
              /\ last_op' = [op |-> "test_connection", responses |-> resp,
                             retry_before |-> retry_count, result |-> r.result,
                             log |-> r.log]
    /\ UNCHANGED <<sensors, history, alarms, last_alarm_time, health_score,
                   remaining_useful_life, operating_hours, reading_count, trend_data,
                   failure_indicators, maintenance_recommendations, last_transmission,
                   php_connector, now, new_alarms, calls, emitted, machine, ss_vars,
                   thr_vars, sim_vars, plant_vars>>

NextRetry == ConnTestConnection

SpecRetry == InitRetrySpec /\ [][NextRetry]_vars

(***************************************************************************)
(* SpecSim: the start_simulation and stop_simulation views of app.py, run  *)
(* by the request threads of the server, and the simulate_system_data      *)
(* threads they start.  The views take no lock and never join a thread.    *)
(***************************************************************************)
InitSim ==
    /\ machine = "enhanced"
    /\ InitEnhanced(FALSE, FALSE)
    /\ InitSensorSystem(machine)
    /\ InitThreads
    /\ InitSimulation
    /\ InitRetry
    /\ InitPlant

\* threads started or about to be started
LoopsClaimed ==
    Len(sim_loops) + Cardinality({h \in Requests : sim_req[h].pc # "idle"})

\* start_simulation: if not simulation_data[system_enum]['running']
SimStartTest ==
    \E h \in Requests, st \in SystemTypes :
        /\ sim_req[h].pc = "idle"
        /\ IF sim_running[st]
           THEN /\ last_op' = [op |-> "start_simulation", system |-> st,
                               status |-> "already_running"]
                /\ UNCHANGED sim_req
           ELSE /\ LoopsClaimed < MaxLoops
                /\ sim_req' = [sim_req EXCEPT ![h] = [pc |-> "set", system |-> st]]
                /\ UNCHANGED last_op
        /\ UNCHANGED <<sensors, ess_rest, machine, ss_vars, thr_vars, sim_running,
                       sim_loops, retry_count, plant_vars>>

\* start_simulation: simulation_data[system_enum]['running'] = True
SimStartSet ==
    \E h \in Requests :
        /\ sim_req[h].pc = "set"
        /\ sim_running' = [sim_running EXCEPT ![sim_req[h].system] = TRUE]
        /\ sim_req' = [sim_req EXCEPT ![h].pc = "spawn"]
        /\ UNCHANGED <<ess_vars, machine, ss_vars, thr_vars, sim_loops, retry_count, plant_vars>>

\* start_simulation: thread.start() and the 'started' response
SimStartSpawn ==
    \E h \in Requests :
        /\ sim_req[h].pc = "spawn"
        /\ sim_loops' = Append(sim_loops, [system |-> sim_req[h].system, pc |-> "test",
                                           raised |-> FALSE])
        /\ sim_req' = [sim_req EXCEPT ![h] = IdleRequest]
        /\ last_op' = [op |-> "start_simulation", system |-> sim_req[h].system,
                       status |-> "started"]
        /\ UNCHANGED <<sensors, ess_rest, machine, ss_vars, thr_vars, sim_running,
                       retry_count, plant_vars>>

\* stop_simulation: simulation_data[system_enum]['running'] = False
SimStop ==
    \E st \in SystemTypes :
        /\ sim_running' = [sim_running EXCEPT ![st] = FALSE]
        /\ last_op' = [op |-> "stop_simulation", system |-> st]
        /\ UNCHANGED <<sensors, ess_rest, machine, ss_vars, thr_vars, sim_loops,
                       sim_req, retry_count, plant_vars>>

\* a loop that goes on whatever the flag says
Mutant_LoopTestAt(i) ==
    /\ i \in DOMAIN sim_loops
    /\ sim_loops[i].pc = "test"
    /\ sim_loops' = [sim_loops EXCEPT ![i].pc = "tick"]
    /\ UNCHANGED <<ess_vars, machine, ss_vars, thr_vars, sim_running, sim_req,
                   retry_count, plant_vars>>

\* simulate_system_data: while simulation_data[system_type]['running']
LoopTestAt(i) ==
    /\ i \in DOMAIN sim_loops
    /\ sim_loops[i].pc = "test"
    /\ sim_loops' = [sim_loops EXCEPT ![i].pc =
                        IF sim_running[sim_loops[i].system] THEN "tick" ELSE "done"]
    /\ UNCHANGED <<ess_vars, machine, ss_vars, thr_vars, sim_running, sim_req,
                   retry_count, plant_vars>>

\* simulate_system_data: the body of the loop, which stores the readings and
\* reaches time.sleep(2), or raises and reaches time.sleep(5) in the handler
LoopTickAt(i) ==
    /\ i \in DOMAIN sim_loops
    /\ sim_loops[i].pc = "tick"
    /\ \E raised \in BOOLEAN :
          sim_loops' = [sim_loops EXCEPT ![i].pc = "sleep", ![i].raised = raised]
    /\ UNCHANGED <<ess_vars, machine, ss_vars, thr_vars, sim_running, sim_req,
                   retry_count, plant_vars>>

\* simulate_system_data: time.sleep(2) (time.sleep(5) after an error) returns
LoopWakeAt(i) ==
    /\ i \in DOMAIN sim_loops
    /\ sim_loops[i].pc = "sleep"
    /\ sim_loops' = [sim_loops EXCEPT ![i].pc = "test"]
    /\ UNCHANGED <<ess_vars, machine, ss_vars, thr_vars, sim_running, sim_req,
                   retry_count, plant_vars>>

LoopTest == \E i \in 1..MaxLoops : LoopTestAt(i)

LoopTick == \E i \in 1..MaxLoops : LoopTickAt(i)

LoopWake == \E i \in 1..MaxLoops : LoopWakeAt(i)

NextSim ==
    \/ SimStartTest
    \/ SimStartSet
    \/ SimStartSpawn
    \/ SimStop
    \/ LoopTest
    \/ LoopTick
    \/ LoopWake

SpecSim == InitSim /\ [][NextSim]_vars

\* every simulate_system_data thread that can take a step is scheduled in the
\* end, and its time.sleep returns; nothing is assumed about the requests
SimFairness ==
    \A i \in 1..MaxLoops : WF_vars(LoopTestAt(i) \/ LoopTickAt(i) \/ LoopWakeAt(i))

SpecSimFair == SpecSim /\ SimFairness

(***************************************************************************)
(* Claims                                                                  *)
(***************************************************************************)
InBounds(s) == s.min <= s.value /\ s.value <= s.max

\* C1: after every update_sensors call (EnhancedSensorSystem, and SensorSystem
\* of main9.py and convy.py) every channel satisfies min <= value <= max,
\* whatever set_thresholds, calibrate_sensor and load_sensor_config calls
\* came before.
C1_ValueWithinBounds ==
    /\ last_op.op = "update_sensors" => \A c \in Channels : InBounds(sensors[c])
    /\ last_op.op = "ss_update_sensors" =>
           \A c \in DOMAIN ss_sensors : InBounds(ss_sensors[c])

InRange0To100(x) == RLeq(RInt(0), x) /\ RLeq(x, RInt(100))

\* C4: in every reachable state of EnhancedSensorSystem health_score is in
\* [0,100] and remaining_useful_life is in [0,100].
C4_HealthAndLifeInRange ==
    InRange0To100(health_score) /\ InRange0To100(remaining_useful_life)

\* an update has lowered the health score and recomputed the remaining life
C4_Witness ==
    /\ last_op.op = "update_sensors"
    /\ RLess(health_score, RInt(100))
    /\ RLess(RInt(0), health_score)
    /\ remaining_useful_life = RInt(0)

\* what set_thresholds(op.sensor_name, ...) must have done to go from S to S1
C10_Post(S, S1, op) ==
    LET n == op.sensor_name
        a == op.alarm_threshold
        c == op.critical_threshold
    IN  /\ \A ch \in Channels \ {n} : S1[ch] = S[ch]
        /\ DOMAIN S1 = DOMAIN S
        /\ n \in Channels =>
              /\ S1[n].alarm_threshold = IF a = None THEN S[n].alarm_threshold ELSE a[1]
              /\ S1[n].critical_threshold =
                     IF c = None THEN S[n].critical_threshold ELSE c[1]
              /\ S1[n].value = S[n].value
              /\ S1[n].min = S[n].min
              /\ S1[n].max = S[n].max
              /\ S1[n].optimal_range = S[n].optimal_range
              /\ S1[n].calibration_factor = S[n].calibration_factor

\* C10: set_thresholds on a known channel stores exactly the values passed,
\* None leaves a threshold as it was, an unknown channel changes nothing, and
\* no call touches another channel or any value, min, max, optimal_range or
\* calibration_factor.
C10_SetThresholdsRoundTrip ==
    [][last_op'.op = "set_thresholds" => C10_Post(sensors, sensors', last_op')]_vars

\* set_thresholds(temperature_c, critical_threshold=78) has just stored 78 and
\* left the alarm threshold at its default
C10_Witness ==
    /\ last_op.op = "set_thresholds"
    /\ last_op.sensor_name = "temperature_c"
    /\ last_op.alarm_threshold = None
    /\ last_op.critical_threshold = Some(78)
    /\ sensors["temperature_c"].critical_threshold = 78
    /\ sensors["temperature_c"].alarm_threshold = 70

\* C2: no two alarm records of the same cooldown key are emitted closer
\* together than the key's window: two HIGH or two CRITICAL records of one
\* channel are at least alarm_cooldown (30 s) apart, two trend (MEDIUM)
\* records of one channel are more than 300 s apart.
C2_CooldownSeparatesAlarms ==
    \A i \in DOMAIN emitted : \A j \in DOMAIN emitted :
        (i < j /\ emitted[i].sensor = emitted[j].sensor
               /\ emitted[i].severity = emitted[j].severity) =>
            IF emitted[i].severity = "MEDIUM"
            THEN emitted[j].timestamp - emitted[i].timestamp > 300
            ELSE emitted[j].timestamp - emitted[i].timestamp >= 30

\* two trend alarms of one channel have been emitted, two HIGH alarms of one
\* channel exactly 30 s apart, and the last update suppressed a trend alarm
\* and a threshold alarm that were still inside their windows
C2_Witness ==
    /\ last_op.op = "update_sensors"
    /\ \E i \in DOMAIN emitted : \E j \in DOMAIN emitted :
          /\ i < j
          /\ emitted[i].sensor = emitted[j].sensor
          /\ emitted[i].severity = "MEDIUM" /\ emitted[j].severity = "MEDIUM"
    /\ \E i \in DOMAIN emitted : \E j \in DOMAIN emitted :
          /\ emitted[i].sensor = emitted[j].sensor
          /\ emitted[i].severity = "HIGH" /\ emitted[j].severity = "HIGH"
          /\ emitted[j].timestamp - emitted[i].timestamp = 30
    /\ sensors["load_kg"].value > sensors["load_kg"].alarm_threshold
    /\ \A k \in DOMAIN new_alarms : new_alarms[k].sensor # "load_kg"
    /\ RLess(Rat(7, 10), trend_data["temperature_c"].r_squared)
    /\ \A k \in DOMAIN new_alarms : new_alarms[k].severity # "MEDIUM"

\* the severity of the threshold alarm the value of s calls for
Crossing(s) ==
    IF s.value > s.critical_threshold THEN "CRITICAL"
    ELSE IF s.value > s.alarm_threshold THEN "HIGH"
    ELSE "none"

\* an alarm of channel c and severity k was emitted by an earlier update less
\* than 30 s before now
FiredRecently(c, k) ==
    \E i \in 1..(Len(emitted) - Len(new_alarms)) :
        /\ emitted[i].sensor = c
        /\ emitted[i].severity = k
        /\ now - emitted[i].timestamp < 30

\* the records of channel c and severity k the last update emitted
EmittedNow(c, k) ==
    SelectSeq(new_alarms, LAMBDA a : a.sensor = c /\ a.severity = k)

\* the severities and times of the speed alarms emitted so far
SpeedAlarms ==
    LET sel == SelectSeq(emitted, LAMBDA a : a.sensor = "speed_rpm")
    IN  [i \in DOMAIN sel |-> <<sel[i].severity, sel[i].value, sel[i].timestamp>>]

\* speed read 92, then 96 five seconds later, then 93 five seconds later
SpeedScenario ==
    LET h == history["speed_rpm"]
    IN  /\ Len(h) = 3
        /\ h[1].value = 92 /\ h[2].value = 96 /\ h[3].value = 93
        /\ h[2].timestamp = h[1].timestamp + 5
        /\ h[3].timestamp = h[1].timestamp + 10

\* C3: after an update a channel above a threshold has exactly one new alarm
\* of its severity if no alarm of the same (channel, severity) fired in the
\* last 30 s, and none otherwise, whatever other keys fired; a channel below
\* its thresholds has none.  With thresholds 90 / 95: 92 at t emits HIGH, 96
\* at t+5 emits CRITICAL, 93 at t+10 emits nothing.
C3_EmittedIffOutsideCooldown ==
    /\ last_op.op = "update_sensors" =>
          \A c \in Channels : \A k \in {"HIGH", "CRITICAL"} :
              Len(EmittedNow(c, k)) =
                  IF Crossing(sensors[c]) = k /\ ~FiredRecently(c, k) THEN 1 ELSE 0
    /\ SpeedScenario =>
          SpeedAlarms = <<<<"HIGH", 92, history["speed_rpm"][1].timestamp>>,
                          <<"CRITICAL", 96, history["speed_rpm"][2].timestamp>>>>

\* the three readings of the scenario have been taken
C3_Witness ==
    /\ last_op.op = "update_sensors"
    /\ sensors["speed_rpm"].alarm_threshold = 90
    /\ sensors["speed_rpm"].critical_threshold = 95
    /\ SpeedScenario
    /\ new_alarms = <<>>

\* what one update must have done to a history buffer of capacity cap
C5_Appended(h, h1, e, cap) ==
    /\ Len(h1) <= cap
    /\ h1 = IF Len(h) < cap THEN Append(h, e) ELSE Append(Tail(h), e)

\* C5: each update_sensors call appends one (timestamp, value) entry to every
\* channel's history, a history never exceeds its capacity, a full history
\* loses exactly its oldest entry and keeps the order of the others, and all
\* histories have the same length (EnhancedSensorSystem and SensorSystem).
C5_HistoryAppendEvict ==
    [][/\ last_op'.op = "update_sensors" =>
            /\ \A c \in Channels :
                  C5_Appended(history[c], history'[c],
                              [timestamp |-> now', value |-> sensors'[c].value],
                              max_history_points)
            /\ \A c \in Channels : Len(history'[c]) = Len(history'["speed_rpm"])
       /\ last_op'.op = "ss_update_sensors" =>
            /\ \A c \in DOMAIN ss_history :
                  C5_Appended(ss_history[c], ss_history'[c],
                              [timestamp |-> now', value |-> ss_sensors'[c].value],
                              ss_max_history)
            /\ \A c \in DOMAIN ss_history : \A d \in DOMAIN ss_history :
                  Len(ss_history'[c]) = Len(ss_history'[d])]_vars

\* a full history has lost its two oldest entries
C5_Witness ==
    /\ last_op.op = "update_sensors"
    /\ reading_count = max_history_points + 2
    /\ Len(history["temperature_c"]) = max_history_points
    /\ history["temperature_c"][1].value = 36

\* C6: after every update_sensors call the alarm log holds at most max_alarms
\* records (100 in the source), and they are the most recently emitted
\* records, threshold and trend alarms alike, in emission order.
C6_AlarmLogIsMostRecent ==
    last_op.op = "update_sensors" =>
        /\ Len(alarms) <= max_alarms
        /\ Len(alarms) = Min(Len(emitted), max_alarms)
        /\ \A i \in DOMAIN alarms : alarms[i] = emitted[Len(emitted) - Len(alarms) + i]

\* more records were emitted than the log holds, and the log holds trend and
\* threshold alarms
C6_Witness ==
    /\ last_op.op = "update_sensors"
    /\ Len(emitted) > max_alarms + 5
    /\ Len(alarms) = max_alarms
    /\ \E i \in DOMAIN alarms : alarms[i].severity = "MEDIUM"
    /\ \E i \in DOMAIN alarms : alarms[i].severity = "CRITICAL"

\* C7: every snapshot a reader completes while the monitoring thread runs
\* update_sensors equals the channel values as they stood at the end of one
\* tick.
C7_SnapshotIsOneTick == rpc = "done" => snapshot \in committed

C9_NextTickOnSchedule == pc = "sending" => now <= due

\* C11: in every reachable state every channel satisfies
\* min < alarm_threshold < critical_threshold < max (a load_sensor_config or
\* set_thresholds that would break the ordering is refused).
C11_ThresholdsOrdered ==
    \A c \in Channels :
        /\ sensors[c].min < sensors[c].alarm_threshold
        /\ sensors[c].alarm_threshold < sensors[c].critical_threshold
        /\ sensors[c].critical_threshold < sensors[c].max

\* C12: when the value computed for a channel during update_sensors is NaN
\* or infinite, the call signals an error to its caller and does not go on
\* with the tick: it stores no clamped value and no history entry for it.
C12_AnomalySignalled ==
    (/\ last_op.op = "update_sensors"
     /\ "anomaly" \in DOMAIN last_op.in
     /\ last_op.in.anomaly.computed.kind # "num") =>
        LET h == history[last_op.in.anomaly.channel]
        IN  /\ last_op.raised
            /\ h = <<>> \/ h[Len(h)].timestamp # now

\* the status the thresholds of s call for
C13_Level(s) ==
    IF s.value > s.critical_threshold THEN "CRITICAL"
    ELSE IF s.alarm_threshold < s.value /\ s.value <= s.critical_threshold THEN "ALARM"
    ELSE "NORMAL"

\* C13: get_current_readings reports CRITICAL iff value > critical_threshold,
\* ALARM iff alarm_threshold < value <= critical_threshold, NORMAL otherwise;
\* a threshold alarm emitted by an update is CRITICAL with priority 1 or HIGH
\* with priority 2 under the same conditions, carries the threshold crossed,
\* and belongs to a channel whose status is not NORMAL.
C13_StatusAndSeverity ==
    /\ last_op.op = "get_current_readings" =>
          \A c \in Channels :
              /\ last_op.result[c].status = C13_Level(sensors[c])
              /\ last_op.result[c].value = sensors[c].value
    /\ last_op.op = "update_sensors" =>
          \A i \in DOMAIN new_alarms :
              LET a == new_alarms[i]
                  s == sensors[a.sensor]
              IN  a.severity \in {"HIGH", "CRITICAL"} =>
                     /\ a.value = s.value
                     /\ C13_Level(s) = (IF a.severity = "HIGH" THEN "ALARM" ELSE "CRITICAL")
                     /\ a.priority = (IF a.severity = "CRITICAL" THEN 1 ELSE 2)
                     /\ a.threshold = (IF a.severity = "CRITICAL" THEN s.critical_threshold
                                       ELSE s.alarm_threshold)
                     /\ GetCurrentReadings(sensors)[a.sensor].status # "NORMAL"

\* a reading taken with the speed exactly at its critical threshold (ALARM)
\* and the temperature exactly at its alarm threshold (NORMAL), after the
\* update emitted a HIGH alarm for the speed and none for the temperature
C13_Witness ==
    /\ last_op.op = "get_current_readings"
    /\ sensors["speed_rpm"].value = sensors["speed_rpm"].critical_threshold
    /\ sensors["temperature_c"].value = sensors["temperature_c"].alarm_threshold
    /\ last_op.result["speed_rpm"].status = "ALARM"
    /\ last_op.result["temperature_c"].status = "NORMAL"
    /\ \E i \in DOMAIN new_alarms :
          new_alarms[i].sensor = "speed_rpm" /\ new_alarms[i].severity = "HIGH"
    /\ \A i \in DOMAIN new_alarms : new_alarms[i].sensor # "temperature_c"

\* the values of the most recent points of h, at most 20
C14_Window(h) == [i \in 1..Min(20, Len(h)) |-> h[Len(h) - Min(20, Len(h)) + i].value]

\* least-squares slope of ys against the indices 0 .. n-1
C14_Slope(ys) ==
    LET n == Len(ys)
    IN  Rat(n * SeqSum([i \in 1..n |-> (i - 1) * ys[i]])
              - SeqSum([i \in 1..n |-> i - 1]) * SeqSum(ys),
            n * SeqSum([i \in 1..n |-> (i - 1) * (i - 1)])
              - SeqSum([i \in 1..n |-> i - 1]) * SeqSum([i \in 1..n |-> i - 1]))

\* C14: after an update a channel with fewer than 10 history points has the
\* neutral trend (slope 0, r_squared 0); with 10 points or more, the 10th
\* included, its trend is the least-squares slope over the most recent
\* points (at most 20), with r_squared in [0,1] and 0 for a window of equal
\* values.
C14_TrendFromTenPoints ==
    last_op.op = "update_sensors" =>
        \A c \in Channels :
            LET ys == C14_Window(history[c])
                tr == trend_data[c]
            IN  IF Len(history[c]) < 10
                THEN tr = [slope |-> RInt(0), r_squared |-> RInt(0)]
                ELSE /\ tr.slope = C14_Slope(ys)
                     /\ RLeq(RInt(0), tr.r_squared) /\ RLeq(tr.r_squared, RInt(1))
                     /\ (\A i \in DOMAIN ys : ys[i] = ys[1]) => tr.r_squared = RInt(0)

\* C15: when every channel value lies inside its optimal range, the
\* operating hours are 0 and the alarm log holds no HIGH or CRITICAL alarm,
\* the update leaves health_score at exactly 100.
C15_PerfectHealth ==
    (/\ last_op.op = "update_sensors"
     /\ \A c \in Channels : /\ sensors[c].optimal_range[1] <= sensors[c].value
                            /\ sensors[c].value <= sensors[c].optimal_range[2]
     /\ operating_hours = RInt(0)
     /\ \A i \in DOMAIN alarms : alarms[i].severity \notin {"HIGH", "CRITICAL"}) =>
        health_score = RInt(100)

\* the second update of a new machine read every channel at the upper end
\* of its optimal range, the first one in the middle
C15_Witness ==
    /\ last_op.op = "update_sensors"
    /\ reading_count = 2
    /\ \A c \in Channels : sensors[c].value = sensors[c].optimal_range[2]
    /\ operating_hours = RInt(0)
    /\ alarms = <<>>
    /\ health_score = RInt(100)

C16_InUnit(x) == RLeq(RInt(0), x) /\ RLeq(x, RInt(1))

\* C16: after every update_sensors call bearing_wear, belt_degradation,
\* motor_efficiency and lubrication_quality all lie in [0,1], whatever the
\* sensor values and the sign of the trend slopes.
C16_FailureIndicatorsInUnit ==
    last_op.op = "update_sensors" =>
        /\ C16_InUnit(failure_indicators.bearing_wear)
        /\ C16_InUnit(failure_indicators.belt_degradation)
        /\ C16_InUnit(failure_indicators.motor_efficiency)
        /\ C16_InUnit(failure_indicators.lubrication_quality)

\* the recommendation types whose trigger holds in the current state
C17_Due ==
    {ty \in {"General Inspection", "Bearing Replacement", "Belt Inspection",
             "Motor Service", "Scheduled Maintenance"} :
        CASE ty = "General Inspection"   -> RLess(health_score, RInt(85))
          [] ty = "Bearing Replacement"  -> RLess(Rat(7, 10), failure_indicators.bearing_wear)
          [] ty = "Belt Inspection"      -> RLess(Rat(6, 10), failure_indicators.belt_degradation)
          [] ty = "Motor Service"        -> RLess(failure_indicators.motor_efficiency, Rat(8, 10))
          [] ty = "Scheduled Maintenance" ->
                 /\ RLess(RInt(500), operating_hours)
                 /\ \E k \in 1..4 : /\ RLeq(RInt(500 * k), operating_hours)
                                    /\ RLess(operating_hours, RInt(500 * k + 1))}

\* C17: after an update the recommendation list holds exactly the
\* recommendations whose trigger holds in the current state, each type once:
\* nothing of an earlier tick survives and the list does not grow.
C17_RecommendationsRecomputed ==
    last_op.op = "update_sensors" =>
        /\ {maintenance_recommendations[i].type : i \in DOMAIN maintenance_recommendations}
               = C17_Due
        /\ Len(maintenance_recommendations) = Cardinality(C17_Due)

\* the first update, every channel at its maximum, listed at least the
\* inspection, bearing, belt and motor recommendations; the second one, every
\* channel back in its optimal range, leaves the list empty
C17_Witness ==
    /\ last_op.op = "update_sensors"
    /\ reading_count = 2
    /\ history["speed_rpm"][1].value = 100
    /\ history["vibration_ms2"][1].value = 20
    /\ history["current_a"][1].value = 50
    /\ sensors["speed_rpm"].value = 50
    /\ maintenance_recommendations = <<>>

\* C18: for each system type at most one simulate_system_data loop is active
\* at any time, whatever the order of the start and stop requests, so that no
\* two loops of one system type are inside a tick together.
C18_TicksNeverOverlap ==
    \A i, j \in DOMAIN sim_loops :
        (i # j /\ sim_loops[i].system = sim_loops[j].system)
            => ~(sim_loops[i].pc = "tick" /\ sim_loops[j].pc = "tick")

\* the requests of the last test_connection call, as positions in its log
C19_Requests == {i \in DOMAIN last_op.log : last_op.log[i].kind = "request"}

\* C19: test_connection returns after at most max_retries = 3 attempts; a
\* backoff delay precedes every retry, whether the failed attempt raised or
\* answered with a status other than 200; on return connected is True iff
\* some attempt got status 200, and otherwise connected is False and
\* retry_count has grown by one.
C19_RetryWithBackoff ==
    last_op.op = "test_connection" =>
        /\ Cardinality(C19_Requests) <= max_retries
        /\ \A i \in C19_Requests :
              last_op.log[i].attempt > 0 =>
                  /\ i > 1
                  /\ last_op.log[i - 1].kind = "sleep"
                  /\ last_op.log[i - 1].seconds > 0
        /\ connected = (\E i \in C19_Requests : last_op.log[i].outcome = "200")
        /\ last_op.result = connected
        /\ ~connected => retry_count = last_op.retry_before + 1

\* a trend alarm of channel c was emitted by an earlier update at most 300 s
\* before now
C20_TrendFiredRecently(c) ==
    \E i \in 1..(Len(emitted) - Len(new_alarms)) :
        /\ emitted[i].sensor = c
        /\ emitted[i].severity = "MEDIUM"
        /\ now - emitted[i].timestamp <= 300

\* the trend of channel c is strongly upward and predicts a value above the
\* alarm threshold ten readings ahead
C20_TrendCondition(c) ==
    /\ RLess(Rat(7, 10), trend_data[c].r_squared)
    /\ RLess(RInt(0), trend_data[c].slope)
    /\ RLess(RInt(sensors[c].alarm_threshold),
             RAdd(RInt(sensors[c].value), RMul(RInt(10), trend_data[c].slope)))

\* C20: an update emits one MEDIUM trend alarm for a channel exactly when the
\* channel's trend has r_squared > 0.7 and slope > 0, value + 10 * slope is
\* above the alarm threshold and no trend alarm of the channel fired in the
\* last 300 s; the HIGH and CRITICAL alarms of the channel have their own
\* keys, so they are emitted or held back by their own 30 s window whatever
\* the trend alarm does, and the trend alarm whatever they do.
C20_TrendAlarmOwnCooldown ==
    last_op.op = "update_sensors" =>
        \A c \in Channels :
            /\ Len(EmittedNow(c, "MEDIUM")) =
                   IF C20_TrendCondition(c) /\ ~C20_TrendFiredRecently(c) THEN 1 ELSE 0
            /\ \A a \in {new_alarms[i] : i \in DOMAIN new_alarms} :
                   (a.sensor = c /\ a.severity = "MEDIUM") =>
                       /\ a.priority = 3
                       /\ a.threshold = sensors[c].alarm_threshold
            /\ \A k \in {"HIGH", "CRITICAL"} :
                   Len(EmittedNow(c, k)) =
                       IF Crossing(sensors[c]) = k /\ ~FiredRecently(c, k) THEN 1 ELSE 0

\* one update emitted a trend alarm and a HIGH alarm for the temperature; a
\* later one, less than 30 s after a HIGH alarm of the temperature, emitted
\* its trend alarm while the HIGH alarm was held back
C20_Witness ==
    /\ last_op.op = "update_sensors"
    /\ \E i \in DOMAIN emitted : \E j \in DOMAIN emitted :
          /\ emitted[i].sensor = "temperature_c" /\ emitted[j].sensor = "temperature_c"
          /\ emitted[i].severity = "MEDIUM" /\ emitted[j].severity = "HIGH"
          /\ emitted[i].timestamp = emitted[j].timestamp
    /\ Len(EmittedNow("temperature_c", "MEDIUM")) = 1
    /\ Crossing(sensors["temperature_c"]) = "HIGH"
    /\ FiredRecently("temperature_c", "HIGH")
    /\ EmittedNow("temperature_c", "HIGH") = <<>>

\* C21: one channel outside its optimal range costs at most 10 points of
\* health however far it is out: with one channel held out of range tick
\* after tick (the temperature at 70 for 50 ticks), the others in range, no
\* alarm and at most one operating hour, health_score is below 100, above 0
\* and at least 90 minus the age penalty (15 * hours / 8760) at every tick.
C21_SingleChannelPenaltyCapped ==
    last_op.op = "update_sensors" =>
        /\ RLess(health_score, RInt(100))
        /\ RLess(RInt(0), health_score)
        /\ RLeq(RSub(RInt(90), RDiv(RMul(RInt(15), operating_hours), RInt(8760))),
                health_score)

\* the 50th tick with the temperature at 70: no alarm was ever raised and the
\* deduction is the full 10 points
C21_Witness ==
    /\ last_op.op = "update_sensors"
    /\ reading_count = HoldTicks
    /\ sensors["temperature_c"].value = 70
    /\ \A i \in DOMAIN history["temperature_c"] : history["temperature_c"][i].value = 70
    /\ emitted = <<>>
    /\ operating_hours = RInt(0)
    /\ health_score = RInt(90)

\* what the update took off 100 when no channel is outside its optimal range
\* and the log holds no HIGH or CRITICAL alarm: the age penalty
C22_AgePenalty == RSub(RInt(100), health_score)

\* C22: the age penalty of _update_health_score grows with operating_hours
\* and saturates at 15 points: it never exceeds 15 and it is 15 once the
\* operating hours are large enough (here: ten years).
C22_AgePenaltySaturatesAt15 ==
    (/\ last_op.op = "update_sensors"
     /\ \A c \in Channels : /\ sensors[c].optimal_range[1] <= sensors[c].value
                            /\ sensors[c].value <= sensors[c].optimal_range[2]
     /\ \A i \in DOMAIN alarms : alarms[i].severity \notin {"HIGH", "CRITICAL"}) =>
        /\ RLeq(C22_AgePenalty, RInt(15))
        /\ RLeq(RInt(87600), operating_hours) => C22_AgePenalty = RInt(15)

\* every simulate_system_data thread of system type st has returned
C23_AllExited(st) ==
    \A i \in DOMAIN sim_loops : sim_loops[i].system = st => sim_loops[i].pc = "done"

\* C23: once stop_simulation has cleared the flag of a system type, and
\* unless a start_simulation sets it again, every loop of that type exits in
\* the end, also when its iteration raised; a loop that has exited stores
\* nothing more; and the stop leaves the flag and the loops of the other
\* system type as they were.
C23_StoppedLoopExits ==
    /\ \A st \in SystemTypes :
          (~sim_running[st]) ~> (sim_running[st] \/ C23_AllExited(st))
    /\ [][/\ \A i \in DOMAIN sim_loops :
                sim_loops[i].pc = "done" => sim_loops'[i] = sim_loops[i]
          /\ \A st \in SystemTypes :
                (sim_running[st] /\ ~sim_running'[st]) =>
                    /\ sim_loops' = sim_loops
                    /\ \A other \in SystemTypes \ {st} :
                          sim_running'[other] = sim_running[other]]_vars

\* the conveyor loop has exited after an iteration that raised, its flag is
\* off, and the bucket elevator loop is inside a tick with its flag still on
C23_Witness ==
    /\ ~sim_running["conveyor"]
    /\ sim_running["bucket_elevator"]
    /\ \E i \in DOMAIN sim_loops : \E j \in DOMAIN sim_loops :
          /\ sim_loops[i] = [system |-> "conveyor", pc |-> "done", raised |-> TRUE]
          /\ sim_loops[j].system = "bucket_elevator"
          /\ sim_loops[j].pc = "tick"
    /\ last_op.op = "stop_simulation"

\* C24: while the connector is connected, two consecutive transmission
\* rounds (each starts with send_sensor_data) are at least
\* transmission_interval = 3 s apart, whatever the send_* calls do and also
\* when maintenance recommendations are present: a tick that starts a round
\* right after a tick that started one comes at least 3 s later.
C24_RoundsSpaced ==
    [][(/\ last_op.op = "update_sensors"
        /\ last_op'.op = "update_sensors"
        /\ php_connector /\ connected
        /\ calls # <<>> /\ calls[1].method = "send_sensor_data"
        /\ calls' # <<>> /\ calls'[1].method = "send_sensor_data") =>
           now' - now >= transmission_interval]_vars

\* the update_machine_status calls of the last update
C25_StatusCalls == SelectSeq(calls, LAMBDA c : c.method = "update_machine_status")

\* C25: every transmission round made while the connector is connected (here
\* with a backend that answers every request) calls update_machine_status
\* exactly once, with the current health_score and with 'Maintenance' if
\* health_score < 70, else 'Error' if an alarm emitted in this tick is
\* CRITICAL, else 'Running', whether or not maintenance recommendations are
\* present in the round.
C25_StatusSentEveryRound ==
    (/\ last_op.op = "update_sensors"
     /\ last_op.in.behaviour = AllOk
     /\ php_connector /\ connected
     /\ calls # <<>>) =>
        /\ Len(C25_StatusCalls) = 1
        /\ C25_StatusCalls[1].arg =
              <<[status |->
                    IF RLess(health_score, RInt(70)) THEN "Maintenance"
                    ELSE IF \E i \in DOMAIN new_alarms : new_alarms[i].severity = "CRITICAL"
                         THEN "Error"
                         ELSE "Running",
                 health_score |-> health_score]>>

\* the alarm records passed to send_alarms by the calls cs
C26_Sent(cs) ==
    UNION {{cs[i].arg[k] : k \in DOMAIN cs[i].arg} :
              i \in {j \in DOMAIN cs : cs[j].method = "send_alarms"}}

\* C26: while the connector stays connected every alarm record a tick emits
\* is passed to send_alarms, in that tick's transmission or a later one, and
\* is not dropped because its tick fell between two rounds: the alarms of a
\* tick that made no round are passed to send_alarms by the round of the
\* tick that follows.
C26_AlarmsReachBackend ==
    [][(/\ last_op.op = "update_sensors"
        /\ last_op'.op = "update_sensors"
        /\ php_connector /\ connected
        /\ new_alarms # <<>>
        /\ calls = <<>>
        /\ calls' # <<>>) =>
           \A k \in DOMAIN new_alarms : new_alarms[k] \in C26_Sent(calls')]_vars

\* C27: the alarm list of SensorSystem (main9.py and convy.py) is bounded:
\* its length never exceeds a fixed cap (here the cap of the alarm log of
\* EnhancedSensorSystem), however many consecutive ticks keep a channel above
\* its alarm threshold.
C27_SSAlarmsBounded == Len(ss_alarms) <= max_alarms

(***************************************************************************)
(* SpecPlant: the monitoring loop of main9.py / convy.py (update_sensors,  *)
(* analyze_trends, update_control once per iteration) beside the frames of *)
(* the animation loop                                                      *)
(***************************************************************************)
\* iterations of monitoring_loop in one run
PlantTicks == MaxTicks + 1

\* frames of the animation loop in one run
PlantFrames == MaxTicks + 1

\* beside the profiles of SSProfiles: a heavy load with every emergency
\* channel exactly on its limit, and a light load with the temperature just
\* over its limit
PlantProfiles(m) ==
    SSProfiles(m) \cup
        (IF m = "convy"
         THEN {ConvyProfile(15, 95, 75, 18, 48, 9), ConvyProfile(15, 20, 76, 5, 20, 2)}
         ELSE {Profile(50, 750, 75, 18, 48), Profile(50, 200, 76, 5, 25)})

InitPlantSpec ==
    /\ machine \in {"main9", "convy"}
    /\ InitEnhanced(FALSE, FALSE)
    /\ InitSensorSystem(machine)
    /\ InitThreads
    /\ InitSimulation
    /\ InitRetry
    /\ InitPlant

\* one iteration of monitoring_loop
MonitoringLoop(raw) ==
    /\ SSUpdateSensors(raw, monitor_period)
    /\ pm_score' = AnalyzeTrends(machine, pm_score, ss_sensors')
    /\ ctl' = UpdateControl(machine, ctl, ss_sensors')
    /\ UNCHANGED <<plant_time, frame_pc, thr_vars, sim_vars, retry_count>>

PlantMonitor ==
    /\ ss_ticks < PlantTicks
    /\ \E raw \in PlantProfiles(machine) : MonitoringLoop(raw)

\* animate: "if not self.control_system.emergency_stop" of one frame
AnimateTest ==
    /\ frame_pc = "test"
    /\ plant_time < PlantFrames
    /\ frame_pc' = IF ctl.emergency_stop THEN "test" ELSE "advance"
    /\ UNCHANGED <<ess_vars, machine, ss_vars, thr_vars, sim_vars, retry_count,
                   pm_score, ctl, plant_time>>

\* animate: "self.operating_time += self.dt" and the rest of the frame
AnimateAdvance ==
    /\ frame_pc = "advance"
    /\ plant_time' = plant_time + 1
    /\ frame_pc' = "test"
    /\ UNCHANGED <<ess_vars, machine, ss_vars, thr_vars, sim_vars, retry_count,
                   pm_score, ctl>>

NextPlant ==
    \/ PlantMonitor
    \/ AnimateTest
    \/ AnimateAdvance

SpecPlant == InitPlantSpec /\ [][NextPlant]_vars

\* C28: the emergency stop is a latch.  An iteration of the monitoring loop
\* leaves emergency_stop True exactly if it was True already or (in auto mode)
\* the new temperature is above 75, the vibration above 18, the current above
\* 48 or, on convy.py, the slippage above 9.  Once it is True no step changes
\* any field of the control system, and every frame of the animation that
\* tests the flag from then on leaves operating_time as it is.
C28_EmergencyStopLatch ==
    [][/\ ss_ticks' # ss_ticks =>
            (ctl'.emergency_stop <=>
                \/ ctl.emergency_stop
                \/ /\ ctl.auto_mode
                   /\ \/ PlantValue(machine, ss_sensors', "temperature_c") > 75
                      \/ PlantValue(machine, ss_sensors', "vibration_ms2") > 18
                      \/ PlantValue(machine, ss_sensors', "current_a") > 48
                      \/ machine = "convy" /\ ss_sensors'["slippage"].value > 9)
       /\ ctl.emergency_stop => ctl' = ctl
       /\ ctl.emergency_stop /\ frame_pc = "test" =>
            plant_time' = plant_time /\ frame_pc' = "test"]_vars

\* stopped on a light load, then an iteration on a heavy load that would have
\* lowered the speed, with frames of the animation still to come
C28_Witness ==
    /\ ctl.emergency_stop
    /\ ss_ticks >= 2
    /\ plant_time < PlantFrames
    /\ frame_pc = "test"
    /\ RLess(Rat(9, 10), Rat(PlantValue(machine, ss_sensors, "load_kg"),
                             IF machine = "convy" THEN 100 ELSE 800))
    /\ ~EmergencyCondition(machine, ss_sensors)
    /\ IF machine = "convy" THEN ctl.target_speed = 20 ELSE ctl.speed_adjustment = 3

(***************************************************************************)
(* SpecWear: the monitoring loop run long enough for maintenance_score to  *)
(* reach its floor.  The first iteration draws the sensor values, the      *)
(* later ones hold them or let every channel return to normal; a run ends  *)
(* once the whole history buffer holds normal values.                      *)
(***************************************************************************)
\* iterations of monitoring_loop in one run: the largest loss of one
\* iteration is 9713/63000 on main9.py, so the floor is reached after 649
WearTicks == 650

\* every channel in its normal range
NormalRaw(m) == IF m = "convy" THEN ConvyProfile(15, 60, 40, 5, 20, 2) ELSE MidRaw

\* the values that repeat the current reading
HeldRaw == [c \in DOMAIN ss_sensors |-> ss_sensors[c].value]

\* the history buffer holds readings, all of them normal
Settled ==
    \A c \in DOMAIN ss_history :
        /\ ss_history[c] # <<>>
        /\ \A i \in 1..Len(ss_history[c]) : ss_history[c][i].value = NormalRaw(machine)[c]

WearMonitor ==
    /\ ss_ticks < WearTicks
    /\ ~Settled
    /\ \E raw \in IF ss_ticks = 0 THEN PlantProfiles(machine)
                  ELSE {HeldRaw, NormalRaw(machine)} :
          MonitoringLoop(raw)

NextWear == WearMonitor

SpecWear == InitPlantSpec /\ [][NextWear]_vars

\* C29: maintenance_score is 100 before the first analyze_trends call, lies in
\* [0, 100] at all times, and no analyze_trends call raises it, whatever the
\* sensors read: also not when they read normal values again.
C29_ScoreNeverRecovers ==
    /\ [](ss_ticks = 0 => pm_score = RInt(100))
    /\ [](RLeq(RInt(0), pm_score) /\ RLeq(pm_score, RInt(100)))
    /\ [][RSub(pm_score, pm_score').n >= 0]_vars

\* the score on its floor with every channel back in its normal range
C29_Witness ==
    /\ pm_score = RInt(0)
    /\ ss_ticks > 0
    /\ HeldRaw = NormalRaw(machine)

\* C30: lubrication_quality is 1 in every state, so after every update_sensors
\* call the largest failure indicator is at least 1 and remaining_useful_life
\* is 0, whatever the sensors read.
C30_RemainingLifeZero ==
    /\ failure_indicators.lubrication_quality = RInt(1)
    /\ last_op.op = "update_sensors" =>
          /\ \E k \in DOMAIN failure_indicators : RLeq(RInt(1), failure_indicators[k])
          /\ remaining_useful_life = RInt(0)

\* an update after which every indicator the code recomputes is below 1
C30_Witness ==
    /\ last_op.op = "update_sensors"
    /\ remaining_useful_life = RInt(0)
    /\ \A k \in DOMAIN failure_indicators \ {"lubrication_quality"} :
          RLess(failure_indicators[k], RInt(1))

====
